---- MODULE Spec2Model ----
(***************************************************************************)
(* NACM (RFC 8341) access control of clixon: lib/src/clixon_nacm.c.        *)
(* The policy tree (xnacm), the data tree (xt) and the requestor are the   *)
(* state; each exported function of clixon_nacm.c is one action, and the   *)
(* static functions it calls are operators translated from their code.     *)
(***************************************************************************)
EXTENDS Integers, Sequences, FiniteSets, TLC

VARIABLES
    mode,       \* option CLICON_NACM_MODE of the handle
    config,     \* what the policy source (datastore or external file) holds
    xnacm,      \* the NACM policy tree
    username,   \* the requestor
    xt,         \* the data tree: the set of nodes attached below its top
    order,      \* the data tree: its element nodes in document order
    flags,      \* the XML_FLAG_MARK / XML_FLAG_DEL flags of the data nodes
    call,       \* the last call: its arguments and its results
    pc,         \* the position of a call taken step by step
    prepvec,    \* the prepvec list (pv_list) of the call taken step by step
    stack,      \* the frames of nacm_datanode_*_recurse(), innermost last
    heap        \* the allocations behind prepvec: struct and node vector

vars ==
    <<mode, config, xnacm, username, xt, order, flags, call, pc, prepvec,
      stack, heap>>

\* A NULL pointer: an absent leaf, an absent user name, an absent tree.
NULL == "<NULL>"

\* A NULL cxobj pointer where a policy tree is expected.
XNULL == [null |-> TRUE]

(***************************************************************************)
(* Bounds of the model.                                                    *)
(***************************************************************************)
\* Largest number of rules of a policy, summed over its rule-lists.
MaxRules == 2

\* Largest number of tokens of an access-operations leaf.
MaxTokens == 2

(***************************************************************************)
(* Strings.                                                                *)
(***************************************************************************)
Range(f) == { f[i] : i \in DOMAIN f }

\* strstr(haystack, needle) != NULL
strstr(haystack, needle) ==
    \E i \in 1..(Len(haystack) - Len(needle) + 1) :
        SubSeq(haystack, i, i + Len(needle) - 1) = needle

(***************************************************************************)
(* The policy tree.  A rule is a record of its leaves, NULL when absent;   *)
(* a rule-list is its group leaf-list and its rules in document order; a   *)
(* group is its name and its user-name leaf-list.                          *)
(***************************************************************************)
Rule(mn, rpc, path, notif, ops, act) ==
    [module_name |-> mn, rpc_name |-> rpc, path |-> path,
     notification_name |-> notif, access_operations |-> ops, action |-> act]

\* groups of the policy, in document order
Groups ==
    << [name |-> "g1", user_name |-> {"u1"}],
       [name |-> "g2", user_name |-> {"u9"}],
       [name |-> "g3", user_name |-> {"u1", "_nacm_recovery"}] >>

\* group leaf-lists a rule-list may carry
RuleListGroups == { {"g3"}, {"g2"} }

\* requestors: unknown, member of g1 and g3, member of no group
Users == { NULL, "u1", "u2" }

\* xpath_vec(xnacm, "groups/group[user-name='%s']"): the user's groups in
\* document order
RECURSIVE SelectGroups(_, _, _)
SelectGroups(groups, user, i) ==
    IF i > Len(groups) THEN << >>
    ELSE (IF user \in groups[i].user_name THEN << groups[i] >> ELSE << >>)
         \o SelectGroups(groups, user, i + 1)

xpath_vec_groups(nacm, user) == SelectGroups(nacm.groups, user, 1)

(***************************************************************************)
(* match_access                                                            *)
(***************************************************************************)
\* Faulty variant of match_access: the special value "*" is not recognised.
match_access_nostar(access_operations, mode1, mode2) ==
    IF access_operations = NULL THEN 0
    ELSE IF strstr(access_operations, mode1) THEN 1
    ELSE IF mode2 # NULL /\ strstr(access_operations, mode2) THEN 1
    ELSE 0

match_access(access_operations, mode1, mode2) ==
    IF access_operations = NULL THEN 0
    ELSE IF access_operations = "*" THEN 1
    ELSE IF strstr(access_operations, mode1) THEN 1
    ELSE IF mode2 # NULL /\ strstr(access_operations, mode2) THEN 1
    ELSE 0

(***************************************************************************)
(* nacm_rule_rpc: 1 when the rule matches the rpc, 0 when it does not      *)
(***************************************************************************)
\* Faulty variant of nacm_rule_rpc: the rule-type is not looked at.
nacm_rule_rpc_anytype(rpc, module, xrule) ==
    IF xrule.module_name = NULL THEN 0
    ELSE IF xrule.module_name # "*" /\ xrule.module_name # module THEN 0
    ELSE IF xrule.rpc_name # NULL /\ xrule.rpc_name # "*" /\ xrule.rpc_name # rpc
    THEN 0
    ELSE IF match_access(xrule.access_operations, "exec", NULL) = 0 THEN 0
    ELSE 1

nacm_rule_rpc(rpc, module, xrule) ==
    IF xrule.module_name = NULL THEN 0
    ELSE IF xrule.module_name # "*" /\ xrule.module_name # module THEN 0
    ELSE IF xrule.rpc_name = NULL
            /\ (xrule.path # NULL \/ xrule.notification_name # NULL) THEN 0
    ELSE IF xrule.rpc_name # NULL /\ xrule.rpc_name # "*" /\ xrule.rpc_name # rpc
    THEN 0
    ELSE IF match_access(xrule.access_operations, "exec", NULL) = 0 THEN 0
    ELSE 1

(***************************************************************************)
(* nacm_rpc                                                                *)
(***************************************************************************)
\* the group loop of a rule-list: some group of gvec is a group leaf of rlist
RECURSIVE GroupLoop(_, _, _)
GroupLoop(rlist, gvec, j) ==
    IF j > Len(gvec) THEN FALSE
    ELSE IF gvec[j].name \in rlist.group THEN TRUE
    ELSE GroupLoop(rlist, gvec, j + 1)

\* Faulty variant of RpcRuleLoop: the scan does not stop at the first match,
\* so the last matching rule of the rule-list is the one found.
RECURSIVE RpcRuleLoop_last(_, _, _, _)
RpcRuleLoop_last(rvec, j, rpc, module) ==
    IF j > Len(rvec) THEN 0
    ELSE LET k == RpcRuleLoop_last(rvec, j + 1, rpc, module)
         IN  IF k # 0 THEN k
             ELSE IF nacm_rule_rpc(rpc, module, rvec[j]) = 1 THEN j ELSE 0

\* the loop over the rules of one rule-list: the index of the first rule
\* that matches, 0 when none does
RECURSIVE RpcRuleLoop(_, _, _, _)
RpcRuleLoop(rvec, j, rpc, module) ==
    IF j > Len(rvec) THEN 0
    ELSE IF nacm_rule_rpc(rpc, module, rvec[j]) = 1 THEN j
    ELSE RpcRuleLoop(rvec, j + 1, rpc, module)

\* a failure of one call the engine makes of a function it does not define:
\* the n-th call of fn the evaluation makes returns its error value.
\* NoFault is the evaluation in which every such call succeeds
NoFault == [fn |-> "none", n |-> 0]

\* the n-th call of fn is the one that fails
Fails(fault, fn, n) == fault.fn = fn /\ fault.n = n

\* the calls of xpath_vec one evaluation of nacm_rpc makes at most: one for
\* the groups, one for the rule-lists and one for each of two rule-lists
MaxXpathCalls == 4

\* Faulty variant of RpcRlistLoop: the rules of every rule-list are tried,
\* whatever its group leaf-list.
RECURSIVE RpcRlistLoop_nogroup(_, _, _, _, _, _, _)
RpcRlistLoop_nogroup(rlistvec, i, gvec, rpc, module, fault, ncalls) ==
    IF i > Len(rlistvec) THEN <<0, 0>>
    ELSE IF Fails(fault, "xpath_vec", ncalls + 1) THEN <<-1, -1>>
    ELSE LET j == RpcRuleLoop(rlistvec[i].rule, 1, rpc, module)
         IN  IF j # 0 THEN <<i, j>>
             ELSE RpcRlistLoop_nogroup(rlistvec, i + 1, gvec, rpc, module,
                                       fault, ncalls + 1)

\* the loop over the rule-lists: <<i, j>> of the rule it stops at (match set),
\* <<0, 0>> when it runs to the end, <<-1, -1>> when xpath_vec fails for the
\* rules of a rule-list that has a group of the user.  ncalls is the number
\* of calls of xpath_vec made so far
RECURSIVE RpcRlistLoop(_, _, _, _, _, _, _)
RpcRlistLoop(rlistvec, i, gvec, rpc, module, fault, ncalls) ==
    IF i > Len(rlistvec) THEN <<0, 0>>
    ELSE IF ~GroupLoop(rlistvec[i], gvec, 1)
    THEN RpcRlistLoop(rlistvec, i + 1, gvec, rpc, module, fault, ncalls)
    ELSE IF Fails(fault, "xpath_vec", ncalls + 1) THEN <<-1, -1>>
    ELSE LET j == RpcRuleLoop(rlistvec[i].rule, 1, rpc, module)
         IN  IF j # 0 THEN <<i, j>>
             ELSE RpcRlistLoop(rlistvec, i + 1, gvec, rpc, module, fault,
                               ncalls + 1)

\* retval and the messages netconf_access_denied has written to cbret
Result(retval, cbret) == [retval |-> retval, cbret |-> cbret]

\* netconf_access_denied(cbret, "application", msg) and the goto deny that
\* follows it: the message is written and the verdict is deny, or the call
\* fails, nothing is written and the evaluation ends with -1
netconf_access_denied(msg, fault) ==
    IF Fails(fault, "netconf_access_denied", 1) THEN Result(-1, << >>)
    ELSE Result(0, << msg >>)

\* Faulty variant of nacm_rpc_step10: exec-default is consulted before the
\* kill-session / delete-config test.
nacm_rpc_step10_execfirst(rpc, nacm, fault) ==
    IF nacm.exec_default = NULL \/ nacm.exec_default = "permit"
    THEN Result(1, << >>)
    ELSE netconf_access_denied("default deny", fault)

\* Faulty variant of nacm_rpc_step10: an absent exec-default leaf denies.
nacm_rpc_step10_absentdeny(rpc, nacm, fault) ==
    IF rpc = "kill-session" \/ rpc = "delete-config"
    THEN netconf_access_denied("default deny", fault)
    ELSE IF nacm.exec_default = "permit"
    THEN Result(1, << >>)
    ELSE netconf_access_denied("default deny", fault)

\* label step10 of nacm_rpc
nacm_rpc_step10(rpc, nacm, fault) ==
    IF rpc = "kill-session" \/ rpc = "delete-config"
    THEN netconf_access_denied("default deny", fault)
    ELSE IF nacm.exec_default = NULL \/ nacm.exec_default = "permit"
    THEN Result(1, << >>)
    ELSE netconf_access_denied("default deny", fault)

\* Faulty variant of nacm_rpc: the close-session test comes after the rules.
nacm_rpc_groupsfirst(rpc, module, user, nacm, fault) ==
    IF Fails(fault, "xml_nsctx_init", 1) THEN Result(-1, << >>)
    ELSE IF user = NULL THEN nacm_rpc_step10(rpc, nacm, fault)
    ELSE IF Fails(fault, "xpath_vec", 1) THEN Result(-1, << >>)
    ELSE
    LET gvec == xpath_vec_groups(nacm, user) IN
    IF Len(gvec) = 0 THEN nacm_rpc_step10(rpc, nacm, fault)
    ELSE IF Fails(fault, "xpath_vec", 2) THEN Result(-1, << >>)
    ELSE
    LET m == RpcRlistLoop(nacm.rule_list, 1, gvec, rpc, module, fault, 2) IN
    IF m[1] = -1 THEN Result(-1, << >>)
    ELSE IF m[1] # 0
    THEN LET action == nacm.rule_list[m[1]].rule[m[2]].action IN
         IF action = NULL THEN nacm_rpc_step10(rpc, nacm, fault)
         ELSE IF action = "deny"
         THEN netconf_access_denied("access denied", fault)
         ELSE IF action = "permit" THEN Result(1, << >>)
         ELSE nacm_rpc_step10(rpc, nacm, fault)
    ELSE IF rpc = "close-session" THEN Result(1, << >>)
    ELSE nacm_rpc_step10(rpc, nacm, fault)

\* nacm_rpc: retval 1 permit, 0 deny with the message in cbret, -1 when a
\* call of xml_nsctx_init, xpath_vec or netconf_access_denied fails, with
\* nothing written to cbret
nacm_rpc(rpc, module, user, nacm, fault) ==
    IF Fails(fault, "xml_nsctx_init", 1) THEN Result(-1, << >>)
    ELSE IF rpc = "close-session" THEN Result(1, << >>)
    ELSE IF user = NULL THEN nacm_rpc_step10(rpc, nacm, fault)
    ELSE IF Fails(fault, "xpath_vec", 1) THEN Result(-1, << >>)
    ELSE
    LET gvec == xpath_vec_groups(nacm, user) IN
    IF Len(gvec) = 0 THEN nacm_rpc_step10(rpc, nacm, fault)
    ELSE IF Fails(fault, "xpath_vec", 2) THEN Result(-1, << >>)
    ELSE
    LET m == RpcRlistLoop(nacm.rule_list, 1, gvec, rpc, module, fault, 2) IN
    IF m[1] = -1 THEN Result(-1, << >>)
    ELSE IF m[1] # 0
    THEN LET action == nacm.rule_list[m[1]].rule[m[2]].action IN
         IF action = NULL THEN nacm_rpc_step10(rpc, nacm, fault)
         ELSE IF action = "deny"
         THEN netconf_access_denied("access denied", fault)
         ELSE IF action = "permit" THEN Result(1, << >>)
         ELSE nacm_rpc_step10(rpc, nacm, fault)
    ELSE nacm_rpc_step10(rpc, nacm, fault)

(***************************************************************************)
(* The data tree.  Its top node ("config") carries no YANG spec; below it  *)
(* the element nodes, each bound to the YANG module that defines it.       *)
(***************************************************************************)
Top == "config"

\* the element nodes below the top, in the document order of scenario S5
NodeOrder == << "r", "x", "y", "z", "s" >>
Nodes == { NodeOrder[i] : i \in DOMAIN NodeOrder }

\* xml_parent
Parent == [n \in Nodes |->
             CASE n = "r" -> Top [] n = "x" -> "r" [] n = "y" -> "r"
               [] n = "z" -> "y" [] n = "s" -> Top]

\* ys_module_by_xml: the name of the module that defines the node
ModuleOf == [n \in Nodes |->
               CASE n = "r" -> "m1" [] n = "x" -> "m1" [] n = "y" -> "m2"
                 [] n = "z" -> "m2" [] n = "s" -> "m2"]

\* xml_spec(xn) != NULL
xml_spec(xn) == xn # Top

NoFlags == [n \in Nodes |-> {}]

(***************************************************************************)
(* Policies.                                                               *)
(***************************************************************************)
SeqsUpTo(S, n) == UNION { [1..k -> S] : k \in 0..n }

\* rule-lists of at most n rules over the rules U
RuleLists(U, n) ==
    { [group |-> g, rule |-> rs] : g \in RuleListGroups, rs \in SeqsUpTo(U, n) }

\* the rule-list vectors of at most two rule-lists and MaxRules rules
RuleListVecs(U) ==
    { << >> } \cup { << a >> : a \in RuleLists(U, MaxRules) }
    \cup UNION { { << a, b >> :
                     a \in { l \in RuleLists(U, k) : Len(l.rule) = k },
                     b \in RuleLists(U, MaxRules - k) } : k \in 0..MaxRules }

Policy(en, rd, wd, ed, rl) ==
    [enable_nacm |-> en, read_default |-> rd, write_default |-> wd,
     exec_default |-> ed, groups |-> Groups, rule_list |-> rl]

Defaults == { NULL, "permit", "deny" }

(***************************************************************************)
(* Incoming RPC message validation: the requests and rules of SpecRpc.     *)
(***************************************************************************)
RpcRequests ==
    { [rpc |-> "close-session", module |-> "ietf-netconf"],
      [rpc |-> "kill-session",  module |-> "ietf-netconf"],
      [rpc |-> "delete-config", module |-> "ietf-netconf"],
      [rpc |-> "edit-config",   module |-> "ietf-netconf"],
      [rpc |-> "reset",         module |-> "example"] }

RpcRules ==
    { Rule("*", NULL, NULL, NULL, "*", "permit"),
      Rule("ietf-netconf", "kill-session", NULL, NULL, "exec", "permit"),
      Rule("*", "*", NULL, NULL, "read exec", "deny"),
      Rule("ietf-netconf", "close-session", NULL, NULL, "*", "deny"),
      Rule("*", NULL, "/r", NULL, "*", "deny"),
      Rule("example", NULL, NULL, NULL, "read", "permit"),
      Rule("*", "delete-config", NULL, NULL, "exec", NULL),
      Rule(NULL, NULL, NULL, NULL, "*", "permit"),
      Rule("*", NULL, NULL, "link-up", "*", "permit"),
      Rule("*", "*", NULL, NULL, NULL, "permit") }

RpcPolicies ==
    { Policy("true", "permit", "deny", ed, rl) :
        ed \in Defaults, rl \in RuleListVecs(RpcRules) }

NoCall == [fn |-> "none"]

InitRpc ==
    /\ mode = "internal"
    /\ config = "nacm"
    /\ xnacm \in RpcPolicies
    /\ username \in Users
    /\ xt = Nodes
    /\ order = NodeOrder
    /\ flags = NoFlags
    /\ call = NoCall
    /\ pc = "idle"
    /\ prepvec = << >>
    /\ stack = << >>
    /\ heap = << >>

\* the failures a call of nacm_rpc can meet: of xml_nsctx_init, of one of
\* its calls of xpath_vec, of netconf_access_denied
RpcFaults ==
    { NoFault, [fn |-> "xml_nsctx_init", n |-> 1],
      [fn |-> "netconf_access_denied", n |-> 1] }
    \cup { [fn |-> "xpath_vec", n |-> k] : k \in 1..MaxXpathCalls }

\* a call of nacm_rpc, in which one of the calls it makes may fail; the
\* function keeps nothing between calls, so each behaviour makes one call
Rpc ==
    /\ call = NoCall
    /\ \E rq \in RpcRequests, fault \in RpcFaults :
         LET r == nacm_rpc(rq.rpc, rq.module, username, xnacm, fault)
         IN  call' = [fn |-> "nacm_rpc", rpc |-> rq.rpc, module |-> rq.module,
                      retval |-> r.retval, cbret |-> r.cbret]
    /\ UNCHANGED <<mode, config, xnacm, username, xt, order, flags, pc, prepvec, heap, stack>>

NextRpc == Rpc

SpecRpc == InitRpc /\ [][NextRpc]_vars

(***************************************************************************)
(* Data trees: navigation.                                                 *)
(***************************************************************************)
\* xml_child_each(xn, ., CX_ELMNT): the element children of xn that are
\* attached in tree, in document order
Children(xn, tree) ==
    SelectSeq(order, LAMBDA n : n \in tree /\ Parent[n] = xn)

\* xml_isancestor(x, xp): xp is a proper ancestor of x
RECURSIVE xml_isancestor(_, _)
xml_isancestor(x, xp) ==
    IF x = Top THEN FALSE
    ELSE IF Parent[x] = xp THEN TRUE
    ELSE xml_isancestor(Parent[x], xp)

\* the nodes of the subtree of xn: xn and its descendants
Subtree(xn) == { n \in Nodes : n = xn \/ xml_isancestor(n, xn) }

\* instance-identifiers of the rules' path leaves and the node each selects;
\* "/r/gone" is a path of the schema with no instance in the tree, "/nosuch"
\* is a path that does not bind to the schema
PathNode ==
    [p \in {"/r", "/r/x", "/r/y", "/r/y/z", "/s"} |->
       CASE p = "/r" -> "r" [] p = "/r/x" -> "x" [] p = "/r/y" -> "y"
         [] p = "/r/y/z" -> "z" [] p = "/s" -> "s"]

\* clixon_xml_find_instance_id(xt, yspec, &xvec, &xlen, path): ret 0 for a
\* path that does not bind, else 1 with the instances found in the tree
clixon_xml_find_instance_id(tree, path) ==
    IF path = "/nosuch" THEN [ret |-> 0, xvec |-> << >>]
    ELSE IF path \in DOMAIN PathNode /\ PathNode[path] \in tree
    THEN [ret |-> 1, xvec |-> << PathNode[path] >>]
    ELSE [ret |-> 1, xvec |-> << >>]

(***************************************************************************)
(* nacm_datanode_prepare: the cache of the rules that apply to the user    *)
(* and the access, each with the nodes its path selects.                   *)
(***************************************************************************)
AccessModes == { "read", "create", "delete", "update" }

\* the values of enum nacm_access: the four accesses to a data node and
\* NACM_EXEC, which the switch of nacm_datanode_prepare has no case for
NacmAccessValues == AccessModes \cup { "exec" }

\* the secondary mode handed to match_access for the access
Mode2(access) == IF access = "read" THEN NULL ELSE "write"

\* prepvec_add: the queue with a new element for xrule at its tail
prepvec_add(pv_list, xrule, xvec) ==
    Append(pv_list, [pv_xrule |-> xrule, pv_xpathvec |-> xvec])

\* retval of nacm_datanode_prepare and the queue it has built in *pv_listp
Prepared(retval, pv_list) == [retval |-> retval, pv_list |-> pv_list]

\* Faulty variant of PrepRuleLoop: new elements are put at the head of the
\* queue.
RECURSIVE PrepRuleLoop_head(_, _, _, _, _)
PrepRuleLoop_head(tree, access, rvec, j, pv_list) ==
    IF j > Len(rvec) THEN Prepared(0, pv_list)
    ELSE
    LET xrule == rvec[j] IN
    IF access \notin AccessModes THEN Prepared(-1, pv_list)
    ELSE IF match_access(xrule.access_operations, access, Mode2(access)) = 0
    THEN PrepRuleLoop_head(tree, access, rvec, j + 1, pv_list)
    ELSE IF xrule.path = NULL
    THEN IF xrule.rpc_name # NULL \/ xrule.notification_name # NULL
         THEN PrepRuleLoop_head(tree, access, rvec, j + 1, pv_list)
         ELSE PrepRuleLoop_head(tree, access, rvec, j + 1,
                  << [pv_xrule |-> xrule, pv_xpathvec |-> << >>] >> \o pv_list)
    ELSE LET f == clixon_xml_find_instance_id(tree, xrule.path) IN
         IF f.ret = 0
         THEN PrepRuleLoop_head(tree, access, rvec, j + 1, pv_list)
         ELSE PrepRuleLoop_head(tree, access, rvec, j + 1,
                  << [pv_xrule |-> xrule, pv_xpathvec |-> f.xvec] >> \o pv_list)

\* the loop over the rules of one rule-list: the switch on access compares
\* the rule's access-operations with the access, and ends the function with
\* -1 for an access that is none of the four
RECURSIVE PrepRuleLoop(_, _, _, _, _)
PrepRuleLoop(tree, access, rvec, j, pv_list) ==
    IF j > Len(rvec) THEN Prepared(0, pv_list)
    ELSE
    LET xrule == rvec[j] IN
    IF access \notin AccessModes THEN Prepared(-1, pv_list)
    ELSE IF match_access(xrule.access_operations, access, Mode2(access)) = 0
    THEN PrepRuleLoop(tree, access, rvec, j + 1, pv_list)
    ELSE IF xrule.path = NULL
    THEN IF xrule.rpc_name # NULL \/ xrule.notification_name # NULL
         THEN PrepRuleLoop(tree, access, rvec, j + 1, pv_list)
         ELSE PrepRuleLoop(tree, access, rvec, j + 1,
                           prepvec_add(pv_list, xrule, << >>))
    ELSE LET f == clixon_xml_find_instance_id(tree, xrule.path) IN
         IF f.ret = 0
         THEN PrepRuleLoop(tree, access, rvec, j + 1, pv_list)
         ELSE PrepRuleLoop(tree, access, rvec, j + 1,
                           prepvec_add(pv_list, xrule, f.xvec))

\* Faulty variant of PrepRlistLoop: the group leaf-list of a rule-list is not
\* compared with the user's groups.
RECURSIVE PrepRlistLoop_nogroup(_, _, _, _, _, _)
PrepRlistLoop_nogroup(tree, access, gvec, rlistvec, i, pv_list) ==
    IF i > Len(rlistvec) THEN Prepared(0, pv_list)
    ELSE LET r == PrepRuleLoop(tree, access, rlistvec[i].rule, 1, pv_list)
         IN  IF r.retval < 0 THEN r
             ELSE PrepRlistLoop_nogroup(tree, access, gvec, rlistvec, i + 1,
                                        r.pv_list)

\* the loop over the rule-lists
RECURSIVE PrepRlistLoop(_, _, _, _, _, _)
PrepRlistLoop(tree, access, gvec, rlistvec, i, pv_list) ==
    IF i > Len(rlistvec) THEN Prepared(0, pv_list)
    ELSE IF ~GroupLoop(rlistvec[i], gvec, 1)
    THEN PrepRlistLoop(tree, access, gvec, rlistvec, i + 1, pv_list)
    ELSE LET r == PrepRuleLoop(tree, access, rlistvec[i].rule, 1, pv_list)
         IN  IF r.retval < 0 THEN r
             ELSE PrepRlistLoop(tree, access, gvec, rlistvec, i + 1,
                                r.pv_list)

\* nacm_datanode_prepare: retval 0 and the queue, or -1 and the queue as
\* far as it is built
nacm_datanode_prepare(tree, access, gvec, rlistvec) ==
    PrepRlistLoop(tree, access, gvec, rlistvec, 1, << >>)

(***************************************************************************)
(* Datanode write.                                                         *)
(***************************************************************************)
\* the loop of nacm_data_*_xrule_xml over the nodes of xpathvec: xn is one
\* of them or has one of them as ancestor
RECURSIVE PathLoop(_, _, _)
PathLoop(xn, xpathvec, i) ==
    IF i > Len(xpathvec) THEN FALSE
    ELSE IF xn = xpathvec[i] \/ xml_isancestor(xn, xpathvec[i]) THEN TRUE
    ELSE PathLoop(xn, xpathvec, i + 1)

\* the end of the process by signal 11, where a function would return a
\* value
SIGSEGV == -11

\* strcmp(action, "deny") behind a match, and the goto deny or goto permit
\* that follows: 1 for deny, 2 for any other action.  For a rule without
\* action leaf strcmp reads through a null pointer, which is undefined
\* behaviour: the read of address 0 ends the process with signal 11
strcmp_action(action) ==
    IF action = NULL THEN SIGSEGV
    ELSE IF action = "deny" THEN 1 ELSE 2

\* Faulty variant of nacm_data_write_xrule_xml: only the node the path
\* selects matches, not the nodes below it.
nacm_data_write_xrule_xml_self(xn, xrule, xpathvec) ==
    IF xrule.module_name = NULL THEN 0
    ELSE IF xrule.module_name # "*" /\ ModuleOf[xn] # xrule.module_name THEN 0
    ELSE IF xrule.path = NULL
    THEN strcmp_action(xrule.action)
    ELSE IF \E i \in DOMAIN xpathvec : xn = xpathvec[i]
    THEN strcmp_action(xrule.action)
    ELSE 0

\* Faulty variant of nacm_data_write_xrule_xml: a rule whose node set is
\* empty is taken for a rule without path.
nacm_data_write_xrule_xml_emptyany(xn, xrule, xpathvec) ==
    IF xrule.module_name = NULL THEN 0
    ELSE IF xrule.module_name # "*" /\ ModuleOf[xn] # xrule.module_name THEN 0
    ELSE IF xrule.path = NULL \/ Len(xpathvec) = 0
    THEN strcmp_action(xrule.action)
    ELSE IF PathLoop(xn, xpathvec, 1)
    THEN strcmp_action(xrule.action)
    ELSE 0

\* nacm_data_write_xrule_xml: 0 no match, 1 match and deny, 2 match and
\* permit; at a match of a rule without action leaf the process ends
nacm_data_write_xrule_xml(xn, xrule, xpathvec) ==
    IF xrule.module_name = NULL THEN 0
    ELSE IF xrule.module_name # "*" /\ ModuleOf[xn] # xrule.module_name THEN 0
    ELSE IF xrule.path = NULL
    THEN strcmp_action(xrule.action)
    ELSE IF PathLoop(xn, xpathvec, 1)
    THEN strcmp_action(xrule.action)
    ELSE 0

\* Faulty variant of WriteScan: the scan does not stop at a match, so the
\* last matching entry of the queue decides.
RECURSIVE WriteScan_last(_, _, _)
WriteScan_last(xn, pv_list, k) ==
    IF k > Len(pv_list) THEN 0
    ELSE LET ret == nacm_data_write_xrule_xml(xn, pv_list[k].pv_xrule,
                                              pv_list[k].pv_xpathvec)
             later == WriteScan_last(xn, pv_list, k + 1)
         IN  IF later # 0 THEN later ELSE ret

\* the scan of the queue in nacm_datanode_write_recurse: the value of ret
\* when the do-while loop is left, SIGSEGV when the process ends in it
RECURSIVE WriteScan(_, _, _)
WriteScan(xn, pv_list, k) ==
    IF k > Len(pv_list) THEN 0
    ELSE LET ret == nacm_data_write_xrule_xml(xn, pv_list[k].pv_xrule,
                                              pv_list[k].pv_xpathvec)
         IN  IF ret = 0 THEN WriteScan(xn, pv_list, k + 1) ELSE ret

RECURSIVE nacm_datanode_write_recurse(_, _, _, _)
RECURSIVE WriteChildLoop(_, _, _, _, _)

\* Faulty variant of WriteChildLoop: the loop goes on after a child is
\* denied, and every denied child writes its message.
RECURSIVE WriteChildLoop_goon(_, _, _, _, _)
WriteChildLoop_goon(children, k, pv_list, defpermit, tree) ==
    IF k > Len(children) THEN Result(1, << >>)
    ELSE LET r == nacm_datanode_write_recurse(children[k], pv_list,
                                              defpermit, tree)
             rest == WriteChildLoop_goon(children, k + 1, pv_list, defpermit,
                                         tree)
         IN  IF r.retval = 0 THEN Result(0, r.cbret \o rest.cbret) ELSE rest

\* the loop of nacm_datanode_write_recurse over the children of xn
WriteChildLoop(children, k, pv_list, defpermit, tree) ==
    IF k > Len(children) THEN Result(1, << >>)
    ELSE LET r == nacm_datanode_write_recurse(children[k], pv_list,
                                              defpermit, tree)
         IN  IF r.retval = SIGSEGV THEN r
             ELSE IF r.retval = 0 THEN r
             ELSE WriteChildLoop(children, k + 1, pv_list, defpermit, tree)

\* Faulty variant of nacm_datanode_write_recurse: the children of a
\* permitted node are not visited.
nacm_datanode_write_recurse_norec(xn, pv_list, defpermit, tree) ==
    LET ret == WriteScan(xn, pv_list, 1) IN
    IF ret = 1 THEN Result(0, << "access denied" >>)
    ELSE IF ret = 0 /\ ~defpermit THEN Result(0, << "default deny" >>)
    ELSE Result(1, << >>)

\* nacm_datanode_write_recurse: retval 1 accept, 0 deny with the message,
\* SIGSEGV when the process ends in the scan of the queue for a node
nacm_datanode_write_recurse(xn, pv_list, defpermit, tree) ==
    LET ret == WriteScan(xn, pv_list, 1) IN
    IF ret = SIGSEGV THEN Result(SIGSEGV, << >>)
    ELSE IF ret = 1 THEN Result(0, << "access denied" >>)
    ELSE IF ret = 0 /\ ~defpermit THEN Result(0, << "default deny" >>)
    ELSE WriteChildLoop(Children(xn, tree), 1, pv_list, defpermit, tree)

\* Faulty variant of nacm_datanode_write: the write-default leaf is looked
\* up at step9 only, after the group steps.
nacm_datanode_write_latedefault(xreq, tree, access, user, nacm) ==
    IF nacm = XNULL THEN Result(1, << >>)
    ELSE
    LET gvec == IF user = NULL THEN << >> ELSE xpath_vec_groups(nacm, user) IN
    IF user = NULL \/ Len(gvec) = 0
    THEN IF nacm.write_default = NULL THEN Result(-1, << >>)
         ELSE IF nacm.write_default = "deny"
         THEN Result(0, << "default deny" >>)
         ELSE Result(1, << >>)
    ELSE
    LET prep == nacm_datanode_prepare(tree, access, gvec, nacm.rule_list) IN
    IF prep.retval < 0 THEN Result(-1, << >>)
    ELSE nacm_datanode_write_recurse(xreq, prep.pv_list,
                                     nacm.write_default # "deny", tree)

nacm_datanode_write(xreq, tree, access, user, nacm) ==
    IF nacm = XNULL THEN Result(1, << >>)
    ELSE IF nacm.write_default = NULL THEN Result(-1, << >>)
    ELSE
    LET gvec == IF user = NULL THEN << >> ELSE xpath_vec_groups(nacm, user) IN
    IF user = NULL \/ Len(gvec) = 0
    THEN IF nacm.write_default = "deny"
         THEN Result(0, << "default deny" >>)
         ELSE Result(1, << >>)
    ELSE
    LET prep == nacm_datanode_prepare(tree, access, gvec, nacm.rule_list) IN
    IF prep.retval < 0 THEN Result(-1, << >>)
    ELSE nacm_datanode_write_recurse(xreq, prep.pv_list,
                                     nacm.write_default # "deny", tree)

\* the rules of the data-node specifications
DataRules ==
    { Rule("*", NULL, "/r/y", NULL, "*", "deny"),
      Rule("*", NULL, NULL, NULL, "*", "permit"),
      Rule("m1", NULL, NULL, NULL, "read create", "permit"),
      Rule("m2", NULL, "/r", NULL, "read write", "deny"),
      Rule("*", NULL, "/r/x", NULL, "*", "permit"),
      Rule("*", NULL, "/nosuch", NULL, "*", "deny"),
      Rule("*", "edit-config", NULL, NULL, "*", "deny"),
      Rule(NULL, NULL, NULL, NULL, "*", "deny"),
      Rule("*", NULL, "/r/gone", NULL, "*", "deny") }

WritePolicies ==
    { XNULL } \cup
    { Policy("true", "permit", wd, "permit", rl) :
        wd \in Defaults, rl \in RuleListVecs(DataRules) }

WriteRequests ==
    { [xreq |-> n, access |-> a] : n \in Nodes, a \in AccessModes \ {"read"} }

InitWrite ==
    /\ mode = "internal"
    /\ config = "nacm"
    /\ xnacm \in WritePolicies
    /\ username \in Users
    /\ xt = Nodes
    /\ order = NodeOrder
    /\ flags = NoFlags
    /\ call = NoCall
    /\ pc = "idle"
    /\ prepvec = << >>
    /\ stack = << >>
    /\ heap = << >>

\* Faulty variant of DatanodeWrite: the node the write is denied for is
\* flagged for deletion, as the read traversal does.
DatanodeWrite_flagdenied ==
    /\ call = NoCall
    /\ \E rq \in WriteRequests :
         LET r == nacm_datanode_write(rq.xreq, xt, rq.access, username, xnacm)
         IN  /\ call' = [fn |-> "nacm_datanode_write", xreq |-> rq.xreq,
                         access |-> rq.access,
                         retval |-> r.retval, cbret |-> r.cbret]
             /\ flags' = IF r.retval = 0
                         THEN [flags EXCEPT ![rq.xreq] = @ \cup {"DEL"}]
                         ELSE flags
    /\ UNCHANGED <<mode, config, xnacm, username, xt, order, pc, prepvec, heap, stack>>

\* a call of nacm_datanode_write; the function keeps nothing between calls,
\* so each behaviour makes one call
DatanodeWrite ==
    /\ call = NoCall
    /\ \E rq \in WriteRequests :
         LET r == nacm_datanode_write(rq.xreq, xt, rq.access, username, xnacm)
         IN  call' = [fn |-> "nacm_datanode_write", xreq |-> rq.xreq,
                      access |-> rq.access,
                      retval |-> r.retval, cbret |-> r.cbret]
    /\ UNCHANGED <<mode, config, xnacm, username, xt, order, flags, pc, prepvec, heap, stack>>

NextWrite == DatanodeWrite

SpecWrite == InitWrite /\ [][NextWrite]_vars

(***************************************************************************)
(* Datanode read.  The tree and the flags change during the traversal: a   *)
(* traversal state st is the record of the attached nodes and the flags.   *)
(***************************************************************************)
XML_FLAG_MARK == "MARK"
XML_FLAG_DEL == "DEL"

\* xml_flag(xn, flag) != 0
xml_flag(fl, xn, flag) == xn # Top /\ flag \in fl[xn]

\* xml_flag_set(xn, flag)
xml_flag_set(st, xn, flag) ==
    [st EXCEPT !.flags[xn] = @ \cup {flag}]

\* xml_purge(xn): xn and the nodes below it are detached and freed
xml_purge(st, xn) ==
    [xt |-> st.xt \ Subtree(xn),
     flags |-> [n \in Nodes |-> IF n \in Subtree(xn) THEN {} ELSE st.flags[n]]]

\* Faulty variant of nacm_data_read_action: a permit rule sets the DEL flag
\* and a deny rule the MARK flag.
nacm_data_read_action_swapped(xrule, xn, st) ==
    IF xrule.action = NULL THEN st
    ELSE IF xrule.action = "deny" THEN xml_flag_set(st, xn, XML_FLAG_MARK)
    ELSE IF xrule.action = "permit" THEN xml_flag_set(st, xn, XML_FLAG_DEL)
    ELSE st

nacm_data_read_action(xrule, xn, st) ==
    IF xrule.action = NULL THEN st
    ELSE IF xrule.action = "deny" THEN xml_flag_set(st, xn, XML_FLAG_DEL)
    ELSE IF xrule.action = "permit" THEN xml_flag_set(st, xn, XML_FLAG_MARK)
    ELSE st

\* nacm_data_read_xrule_xml: ret 0 no match, 1 match with the action applied
nacm_data_read_xrule_xml(xn, xrule, xpathvec, st) ==
    IF xrule.module_name = NULL THEN [ret |-> 0, st |-> st]
    ELSE IF xrule.module_name # "*" /\ ModuleOf[xn] # xrule.module_name
    THEN [ret |-> 0, st |-> st]
    ELSE IF xrule.path = NULL
    THEN [ret |-> 1, st |-> nacm_data_read_action(xrule, xn, st)]
    ELSE IF PathLoop(xn, xpathvec, 1)
    THEN [ret |-> 1, st |-> nacm_data_read_action(xrule, xn, st)]
    ELSE [ret |-> 0, st |-> st]

\* Faulty variant of ReadScan: the scan goes on after a match, so every
\* matching rule applies its action.
RECURSIVE ReadScan_all(_, _, _, _)
ReadScan_all(xn, pv_list, k, st) ==
    IF k > Len(pv_list) THEN st
    ELSE LET r == nacm_data_read_xrule_xml(xn, pv_list[k].pv_xrule,
                                           pv_list[k].pv_xpathvec, st)
         IN  ReadScan_all(xn, pv_list, k + 1, r.st)

\* the scan of the queue in nacm_datanode_read_recurse: stop at first match
RECURSIVE ReadScan(_, _, _, _)
ReadScan(xn, pv_list, k, st) ==
    IF k > Len(pv_list) THEN st
    ELSE LET r == nacm_data_read_xrule_xml(xn, pv_list[k].pv_xrule,
                                           pv_list[k].pv_xpathvec, st)
         IN  IF r.ret = 1 THEN r.st ELSE ReadScan(xn, pv_list, k + 1, r.st)

RECURSIVE nacm_datanode_read_recurse(_, _, _)
RECURSIVE ReadChildLoop(_, _, _, _)

\* Faulty variant of ReadChildLoop: the DEL flag of a child is tested before
\* the child is checked, not after.
RECURSIVE ReadChildLoop_checkfirst(_, _, _, _)
ReadChildLoop_checkfirst(xn, i, pv_list, st) ==
    LET children == Children(xn, st.xt) IN
    IF i > Len(children) THEN st
    ELSE LET x == children[i]
         IN  IF xml_flag(st.flags, x, XML_FLAG_DEL)
             THEN ReadChildLoop_checkfirst(xn, 1, pv_list, xml_purge(st, x))
             ELSE ReadChildLoop_checkfirst(xn, i + 1, pv_list,
                      nacm_datanode_read_recurse(x, pv_list, st))

\* Faulty variant of ReadChildLoop: after a child is purged the iteration
\* goes on at the next index, past the sibling that has taken the place of
\* the purged child.
RECURSIVE ReadChildLoop_skip(_, _, _, _)
ReadChildLoop_skip(xn, i, pv_list, st) ==
    LET children == Children(xn, st.xt) IN
    IF i > Len(children) THEN st
    ELSE LET x == children[i]
             st1 == nacm_datanode_read_recurse(x, pv_list, st)
         IN  IF xml_flag(st1.flags, x, XML_FLAG_DEL)
             THEN ReadChildLoop_skip(xn, i + 1, pv_list, xml_purge(st1, x))
             ELSE ReadChildLoop_skip(xn, i + 1, pv_list, st1)

\* the loop of nacm_datanode_read_recurse over the children of xn: child i
\* is checked; when it comes back flagged DEL it is purged and the
\* iteration starts again at the first child (x = xprev with xprev NULL)
ReadChildLoop(xn, i, pv_list, st) ==
    LET children == Children(xn, st.xt) IN
    IF i > Len(children) THEN st
    ELSE LET x == children[i]
             st1 == nacm_datanode_read_recurse(x, pv_list, st)
         IN  IF xml_flag(st1.flags, x, XML_FLAG_DEL)
             THEN ReadChildLoop(xn, 1, pv_list, xml_purge(st1, x))
             ELSE ReadChildLoop(xn, i + 1, pv_list, st1)

nacm_datanode_read_recurse(xn, pv_list, st) ==
    LET st1 == IF xml_spec(xn) THEN ReadScan(xn, pv_list, 1, st) ELSE st
    IN  IF ~xml_flag(st1.flags, xn, XML_FLAG_DEL)
        THEN ReadChildLoop(xn, 1, pv_list, st1)
        ELSE st1

\* xml_tree_prune_flagged_sub(xt, flag, 1, NULL): every subtree whose root
\* does not carry the flag and that holds no node carrying it is removed
xml_tree_prune_flagged_sub(st, flag) ==
    LET keep == { n \in st.xt :
                    \E d \in st.xt : /\ d = n \/ xml_isancestor(d, n)
                                     /\ flag \in st.flags[d] }
    IN  [xt |-> keep,
         flags |-> [n \in Nodes |-> IF n \in keep THEN st.flags[n] ELSE {}]]

\* xml_apply(xt, CX_ELMNT, xml_flag_reset, flag)
xml_apply_flag_reset(st, flag) ==
    [st EXCEPT !.flags = [n \in Nodes |-> st.flags[n] \ {flag}]]

\* Faulty variant of PurgeLoop: the loop is left after the first requested
\* node.
PurgeLoop_first(xrvec, i, st) ==
    IF i > Len(xrvec) THEN st
    ELSE xml_purge(st, xrvec[i])

\* the loop of step9 over the requested nodes
RECURSIVE PurgeLoop(_, _, _)
PurgeLoop(xrvec, i, st) ==
    IF i > Len(xrvec) THEN st
    ELSE PurgeLoop(xrvec, i + 1, xml_purge(st, xrvec[i]))

ReadResult(retval, st) == [retval |-> retval, xt |-> st.xt, flags |-> st.flags]

\* the traversal of the requested nodes, one after the other
RECURSIVE ReadRootLoop(_, _, _, _)
ReadRootLoop(xrvec, i, pv_list, st) ==
    IF i > Len(xrvec) THEN st
    ELSE ReadRootLoop(xrvec, i + 1, pv_list,
                      nacm_datanode_read_recurse(xrvec[i], pv_list, st))

\* Faulty variant of nacm_datanode_read: the traversal starts at the
\* requested nodes, not at the top of the tree.
nacm_datanode_read_fromroots(tree, fl, xrvec, user, nacm) ==
    LET st == [xt |-> tree, flags |-> fl] IN
    IF user = NULL THEN ReadResult(0, PurgeLoop(xrvec, 1, st))
    ELSE
    LET gvec == xpath_vec_groups(nacm, user) IN
    IF nacm.read_default = NULL THEN ReadResult(-1, st)
    ELSE
    LET prep == nacm_datanode_prepare(tree, "read", gvec, nacm.rule_list)
        pv_list == prep.pv_list
        st1 == ReadRootLoop(xrvec, 1, pv_list, st)
        st2 == IF nacm.read_default = "deny"
               THEN xml_tree_prune_flagged_sub(st1, XML_FLAG_MARK)
               ELSE st1
    IN  IF prep.retval < 0 THEN ReadResult(-1, st)
        ELSE ReadResult(0, xml_apply_flag_reset(st2, XML_FLAG_MARK))

\* Faulty variant of nacm_datanode_read: an unknown user is handled like a
\* user without groups, so read-default decides for it.
nacm_datanode_read_nullasnogroup(tree, fl, xrvec, user, nacm) ==
    LET st == [xt |-> tree, flags |-> fl]
        gvec == IF user = NULL THEN << >> ELSE xpath_vec_groups(nacm, user)
    IN
    IF nacm.read_default = NULL THEN ReadResult(-1, st)
    ELSE
    LET prep == nacm_datanode_prepare(tree, "read", gvec, nacm.rule_list)
        pv_list == prep.pv_list
        st1 == nacm_datanode_read_recurse(Top, pv_list, st)
        st2 == IF nacm.read_default = "deny"
               THEN xml_tree_prune_flagged_sub(st1, XML_FLAG_MARK)
               ELSE st1
    IN  IF prep.retval < 0 THEN ReadResult(-1, st)
        ELSE ReadResult(0, xml_apply_flag_reset(st2, XML_FLAG_MARK))

\* Faulty variant of nacm_datanode_read: an absent read-default leaf counts
\* as permit.
nacm_datanode_read_absentpermit(tree, fl, xrvec, user, nacm) ==
    LET st == [xt |-> tree, flags |-> fl] IN
    IF user = NULL THEN ReadResult(0, PurgeLoop(xrvec, 1, st))
    ELSE
    LET gvec == xpath_vec_groups(nacm, user)
        prep == nacm_datanode_prepare(tree, "read", gvec, nacm.rule_list)
        pv_list == prep.pv_list
        st1 == nacm_datanode_read_recurse(Top, pv_list, st)
        st2 == IF nacm.read_default = "deny"
               THEN xml_tree_prune_flagged_sub(st1, XML_FLAG_MARK)
               ELSE st1
    IN  IF prep.retval < 0 THEN ReadResult(-1, st)
        ELSE ReadResult(0, xml_apply_flag_reset(st2, XML_FLAG_MARK))

nacm_datanode_read(tree, fl, xrvec, user, nacm) ==
    LET st == [xt |-> tree, flags |-> fl] IN
    IF user = NULL THEN ReadResult(0, PurgeLoop(xrvec, 1, st))
    ELSE
    LET gvec == xpath_vec_groups(nacm, user) IN
    IF nacm.read_default = NULL THEN ReadResult(-1, st)
    ELSE
    LET prep == nacm_datanode_prepare(tree, "read", gvec, nacm.rule_list)
        pv_list == prep.pv_list
        st1 == nacm_datanode_read_recurse(Top, pv_list, st)
        st2 == IF nacm.read_default = "deny"
               THEN xml_tree_prune_flagged_sub(st1, XML_FLAG_MARK)
               ELSE st1
    IN  IF prep.retval < 0 THEN ReadResult(-1, st)
        ELSE ReadResult(0, xml_apply_flag_reset(st2, XML_FLAG_MARK))

ReadPolicies ==
    { Policy("true", rd, "deny", "permit", rl) :
        rd \in Defaults, rl \in RuleListVecs(DataRules) }

\* vectors of requested nodes: none lies below another
ReadRoots == { << "r" >>, << "x", "s" >>, << "y" >> }

InitRead ==
    /\ mode = "internal"
    /\ config = "nacm"
    /\ xnacm \in ReadPolicies
    /\ username \in Users
    /\ xt = Nodes
    /\ order = NodeOrder
    /\ flags = NoFlags
    /\ call = NoCall
    /\ pc = "idle"
    /\ prepvec = << >>
    /\ stack = << >>
    /\ heap = << >>

\* a call of nacm_datanode_read on the tree as the calls before left it
DatanodeRead ==
    \E xrvec \in ReadRoots :
      /\ Range(xrvec) \subseteq xt
      /\ LET r == nacm_datanode_read(xt, flags, xrvec, username, xnacm)
         IN  /\ xt' = r.xt
             /\ flags' = r.flags
             /\ call' = [fn |-> "nacm_datanode_read", xrvec |-> xrvec,
                         xt0 |-> xt, retval |-> r.retval]
      /\ UNCHANGED <<mode, config, xnacm, username, order, pc, prepvec, heap, stack>>

NextRead == DatanodeRead

SpecRead == InitRead /\ [][NextRead]_vars

(***************************************************************************)
(* Datanode read on the trees that differ in the order of their siblings.  *)
(***************************************************************************)
\* the document orders of the tree: <x/> and <y/> below <r/>, and <r/> and
\* <s/> below the top, in either order
NodeOrders ==
    { << "r", "x", "y", "z", "s" >>, << "r", "y", "z", "x", "s" >>,
      << "s", "r", "x", "y", "z" >>, << "s", "r", "y", "z", "x" >> }

\* the rules of DataRules that are taken into a read cache with a node set
\* that is not empty, or with none
OrderRules ==
    { r \in DataRules :
        /\ r.module_name # NULL
        /\ r.rpc_name = NULL
        /\ r.path \in { NULL, "/r", "/r/x", "/r/y" } }

ReadOrderPolicies ==
    { Policy("true", rd, "deny", "permit", rl) :
        rd \in { "permit", "deny" }, rl \in RuleListVecs(OrderRules) }

InitReadOrder ==
    /\ mode = "internal"
    /\ config = "nacm"
    /\ xnacm \in ReadOrderPolicies
    /\ username \in { "u1", "u2" }
    /\ xt = Nodes
    /\ order \in NodeOrders
    /\ flags = NoFlags
    /\ call = NoCall
    /\ pc = "idle"
    /\ prepvec = << >>
    /\ stack = << >>
    /\ heap = << >>

SpecReadOrder == InitReadOrder /\ [][NextRead]_vars

(***************************************************************************)
(* The two traversals taken step by step: one step for every cache entry   *)
(* tested against a node, for every test of a flag and for every turn of   *)
(* the loop over the children, with the frames of the recursion on a       *)
(* stack.                                                                  *)
(***************************************************************************)
\* xml_child_each(xn, xprev, CX_ELMNT): the element child of xn that follows
\* xprev, the first one when xprev is NULL, NULL when there is none
xml_child_each(xn, xprev, tree) ==
    LET children == Children(xn, tree) IN
    IF xprev = NULL
    THEN (IF Len(children) = 0 THEN NULL ELSE children[1])
    ELSE LET i == CHOOSE k \in DOMAIN children : children[k] = xprev
         IN  IF i = Len(children) THEN NULL ELSE children[i + 1]

\* the allocations of a queue: malloc has returned the struct of every
\* element and clixon_xvec_new the node vector of every element, but for the
\* last one when novec tells that clixon_xvec_new has failed for it
HeapOf(pv_list, novec) ==
    [k \in DOMAIN pv_list |->
       [pv |-> "live",
        xvec |-> IF novec /\ k = Len(pv_list) THEN "none" ELSE "live"]]

\* free(p) and clixon_xvec_free(p): a live allocation is freed; an allocation
\* that is freed already is freed twice
free(alloc) == IF alloc = "live" THEN "freed" ELSE "freed twice"

\* prepvec_free: every element is taken out of the queue, its node vector is
\* freed when it has one, and its struct is freed
RECURSIVE prepvec_free(_, _)
prepvec_free(hp, k) ==
    IF k > Len(hp) THEN hp
    ELSE prepvec_free([hp EXCEPT ![k] =
                         [pv |-> free(@.pv),
                          xvec |-> IF @.xvec # "none" THEN free(@.xvec)
                                   ELSE "none"]], k + 1)

\* a call of nacm_datanode_read_recurse(xn, pv_list) at its first
\* statement: the scan of the queue when xn has a YANG spec and the queue
\* is not empty, else the test of the DEL flag.  at is the position in the
\* function, pv the entry under test, x the child the loop is at, ret the
\* value the last call for a child has returned, restarts the number of
\* times the loop over the children has started again
Frame(xn, pv_list) ==
    [xn |-> xn,
     at |-> IF xml_spec(xn) /\ Len(pv_list) > 0 THEN "scan" ELSE "test",
     pv |-> 1, x |-> NULL, ret |-> 0, restarts |-> 0]

\* a call of nacm_datanode_write_recurse(xn, pv_list) at its first
\* statement: the scan of the queue when the queue is not empty, else the
\* test of the default with ret 0
WriteFrame(xn, pv_list) ==
    [xn |-> xn,
     at |-> IF Len(pv_list) > 0 THEN "scan" ELSE "default",
     pv |-> 1, x |-> NULL, ret |-> 0, restarts |-> 0]

\* return of the innermost call with retval: the caller goes on behind the
\* call with the value returned
ReturnFrom(stk, retval) ==
    IF Len(stk) = 1 THEN << >>
    ELSE [SubSeq(stk, 1, Len(stk) - 1) EXCEPT
            ![Len(stk) - 1] = [@ EXCEPT !.at = "back", !.ret = retval]]

StepRules ==
    { Rule("*", NULL, "/r/y", NULL, "*", "deny"),
      Rule("*", NULL, "/r/y/z", NULL, "*", "permit"),
      Rule("m2", NULL, NULL, NULL, "read", "deny"),
      Rule("*", NULL, "/r/x", NULL, "*", "deny") }

\* policies with the same read-default and write-default
StepPolicies ==
    { Policy("true", df, df, "permit", rl) :
        df \in Defaults, rl \in RuleListVecs(StepRules) }

StepRoots == { << "r" >>, << "x", "s" >> }

\* write requests, one of them with NACM_EXEC for the access
StepRequests ==
    { [xreq |-> "r", access |-> "create"], [xreq |-> "y", access |-> "update"],
      [xreq |-> "r", access |-> "exec"] }

InitSteps ==
    /\ mode = "internal"
    /\ config = "nacm"
    /\ xnacm \in StepPolicies
    /\ username \in { NULL, "u1" }
    /\ xt = Nodes
    /\ order = NodeOrder
    /\ flags = NoFlags
    /\ call = NoCall
    /\ pc = "idle"
    /\ prepvec = << >>
    /\ stack = << >>
    /\ heap = << >>

\* nacm_datanode_read up to its call of nacm_datanode_read_recurse, or to
\* the label done when nacm_datanode_prepare returns -1
ReadEnter ==
    /\ pc = "idle"
    /\ call = NoCall
    /\ \E xrvec \in StepRoots :
         LET st == [xt |-> xt, flags |-> flags]
             gvec == xpath_vec_groups(xnacm, username)
             running == [fn |-> "nacm_datanode_read", xrvec |-> xrvec,
                         xt0 |-> xt, retval |-> -1]
         IN  IF username = NULL
             THEN LET st9 == PurgeLoop(xrvec, 1, st)
                  IN  /\ xt' = st9.xt
                      /\ flags' = st9.flags
                      /\ call' = [running EXCEPT !.retval = 0]
                      /\ pc' = "out"
                      /\ UNCHANGED <<prepvec, heap, stack>>
             ELSE IF xnacm.read_default = NULL
             THEN /\ call' = running
                  /\ pc' = "out"
                  /\ UNCHANGED <<xt, flags, prepvec, heap, stack>>
             ELSE LET prep == nacm_datanode_prepare(xt, "read", gvec,
                                                    xnacm.rule_list)
                      pv_list == prep.pv_list
                  IN  /\ prepvec' = pv_list
                      /\ heap' = HeapOf(pv_list, FALSE)
                      /\ stack' = IF prep.retval < 0 THEN << >>
                                  ELSE << Frame(Top, pv_list) >>
                      /\ call' = running
                      /\ pc' = IF prep.retval < 0 THEN "out" ELSE "recurse"
                      /\ UNCHANGED <<xt, flags>>
    /\ UNCHANGED <<mode, config, xnacm, username, order>>

\* one turn of the do-while loop over the queue: the entry pv is tested;
\* the loop is left at a match, and when the next entry is the head again
ReadScanStep ==
    /\ pc = "recurse"
    /\ LET f == stack[Len(stack)]
           r == nacm_data_read_xrule_xml(f.xn, prepvec[f.pv].pv_xrule,
                                         prepvec[f.pv].pv_xpathvec,
                                         [xt |-> xt, flags |-> flags])
       IN  /\ f.at = "scan"
           /\ xt' = r.st.xt
           /\ flags' = r.st.flags
           /\ stack' = [stack EXCEPT ![Len(stack)] =
                          IF r.ret = 1 \/ f.pv = Len(prepvec)
                          THEN [f EXCEPT !.at = "test"]
                          ELSE [f EXCEPT !.pv = f.pv + 1]]
    /\ UNCHANGED <<mode, config, xnacm, username, order, call, pc, prepvec, heap>>

\* the test of the DEL flag of xn behind the scan: a node to be purged is
\* left to the caller, its children are not visited
ReadTest ==
    /\ pc = "recurse"
    /\ LET f == stack[Len(stack)]
       IN  /\ f.at = "test"
           /\ IF xml_flag(flags, f.xn, XML_FLAG_DEL)
              THEN /\ stack' = ReturnFrom(stack, 0)
                   /\ pc' = IF Len(stack) = 1 THEN "step8" ELSE pc
              ELSE /\ stack' = [stack EXCEPT ![Len(stack)] =
                                  [f EXCEPT !.at = "each", !.x = NULL]]
                   /\ pc' = pc
    /\ UNCHANGED <<mode, config, xnacm, username, xt, order, flags, call,
                   prepvec, heap>>

\* the head of the loop over the children: the next child is checked by a
\* call of its own, and without a next child the function returns
ReadEach ==
    /\ pc = "recurse"
    /\ LET f == stack[Len(stack)]
           x == xml_child_each(f.xn, f.x, xt)
       IN  /\ f.at = "each"
           /\ IF x = NULL
              THEN /\ stack' = ReturnFrom(stack, 0)
                   /\ pc' = IF Len(stack) = 1 THEN "step8" ELSE pc
              ELSE /\ stack' = Append([stack EXCEPT ![Len(stack)].x = x],
                                      Frame(x, prepvec))
                   /\ pc' = pc
    /\ UNCHANGED <<mode, config, xnacm, username, xt, order, flags, call,
                   prepvec, heap>>

\* Faulty variant of ReadBack: the loop starts again at the first child
\* behind every child, purged or not.
ReadBack_restartalways ==
    /\ pc = "recurse"
    /\ LET f == stack[Len(stack)]
           st == IF xml_flag(flags, f.x, XML_FLAG_DEL)
                 THEN xml_purge([xt |-> xt, flags |-> flags], f.x)
                 ELSE [xt |-> xt, flags |-> flags]
       IN  /\ f.at = "back"
           /\ xt' = st.xt
           /\ flags' = st.flags
           /\ stack' = [stack EXCEPT ![Len(stack)] =
                          [f EXCEPT !.at = "each", !.x = NULL,
                                    !.restarts = f.restarts + 1]]
    /\ UNCHANGED <<mode, config, xnacm, username, order, call, pc, prepvec, heap>>

\* Faulty variant of ReadBack: a child that came back flagged DEL is taken
\* out of its parent alone, and the nodes below it stay in the tree.
ReadBack_flat ==
    /\ pc = "recurse"
    /\ LET f == stack[Len(stack)]
       IN  /\ f.at = "back"
           /\ IF xml_flag(flags, f.x, XML_FLAG_DEL)
              THEN /\ xt' = xt \ {f.x}
                   /\ flags' = [flags EXCEPT ![f.x] = {}]
                   /\ stack' = [stack EXCEPT ![Len(stack)] =
                                  [f EXCEPT !.at = "each", !.x = NULL,
                                            !.restarts = f.restarts + 1]]
              ELSE /\ stack' = [stack EXCEPT ![Len(stack)].at = "each"]
                   /\ UNCHANGED <<xt, flags>>
    /\ UNCHANGED <<mode, config, xnacm, username, order, call, pc, prepvec, heap>>

\* behind the call for the child x: a child that came back flagged DEL is
\* purged and the loop starts again at the first child
ReadBack ==
    /\ pc = "recurse"
    /\ LET f == stack[Len(stack)]
       IN  /\ f.at = "back"
           /\ IF xml_flag(flags, f.x, XML_FLAG_DEL)
              THEN LET st == xml_purge([xt |-> xt, flags |-> flags], f.x)
                   IN  /\ xt' = st.xt
                       /\ flags' = st.flags
                       /\ stack' = [stack EXCEPT ![Len(stack)] =
                                      [f EXCEPT !.at = "each", !.x = NULL,
                                                !.restarts = f.restarts + 1]]
              ELSE /\ stack' = [stack EXCEPT ![Len(stack)].at = "each"]
                   /\ UNCHANGED <<xt, flags>>
    /\ UNCHANGED <<mode, config, xnacm, username, order, call, pc, prepvec, heap>>

\* nacm_datanode_read behind the traversal: step 8, the reset of the MARK
\* flags, and ok
ReadLeave ==
    /\ pc = "step8"
    /\ LET st1 == [xt |-> xt, flags |-> flags]
           st2 == IF xnacm.read_default = "deny"
                  THEN xml_tree_prune_flagged_sub(st1, XML_FLAG_MARK)
                  ELSE st1
           st3 == xml_apply_flag_reset(st2, XML_FLAG_MARK)
       IN  /\ xt' = st3.xt
           /\ flags' = st3.flags
    /\ call' = [call EXCEPT !.retval = 0]
    /\ pc' = "out"
    /\ UNCHANGED <<mode, config, xnacm, username, order, prepvec, heap,
                   stack>>

\* nacm_datanode_write up to its call of nacm_datanode_write_recurse, or to
\* the label done when nacm_datanode_prepare returns -1; ret is the value
\* the call of nacm_datanode_write_recurse returns
WriteEnter ==
    /\ pc = "idle"
    /\ call = NoCall
    /\ \E rq \in StepRequests :
         LET gvec == IF username = NULL THEN << >>
                     ELSE xpath_vec_groups(xnacm, username)
             running == [fn |-> "nacm_datanode_write", xreq |-> rq.xreq,
                         access |-> rq.access, ret |-> 0, retval |-> -1,
                         cbret |-> << >>]
         IN  IF xnacm.write_default = NULL
             THEN /\ call' = running
                  /\ pc' = "out"
                  /\ UNCHANGED <<prepvec, heap, stack>>
             ELSE IF username = NULL \/ Len(gvec) = 0
             THEN /\ call' = IF xnacm.write_default = "deny"
                             THEN [running EXCEPT !.retval = 0,
                                                  !.cbret = << "default deny" >>]
                             ELSE [running EXCEPT !.retval = 1]
                  /\ pc' = "out"
                  /\ UNCHANGED <<prepvec, heap, stack>>
             ELSE LET prep == nacm_datanode_prepare(xt, rq.access, gvec,
                                                    xnacm.rule_list)
                      pv_list == prep.pv_list
                  IN  /\ prepvec' = pv_list
                      /\ heap' = HeapOf(pv_list, FALSE)
                      /\ stack' = IF prep.retval < 0 THEN << >>
                                  ELSE << WriteFrame(rq.xreq, pv_list) >>
                      /\ call' = running
                      /\ pc' = IF prep.retval < 0 THEN "out"
                               ELSE "write_recurse"
    /\ UNCHANGED <<mode, config, xnacm, username, xt, order, flags>>

\* one turn of the do-while loop over the queue in
\* nacm_datanode_write_recurse: a deny ends the traversal with the message,
\* a permit ends the scan, and the scan ends with ret 0 when the next entry
\* is the head again; at a match of a rule without action leaf the process
\* ends where it is, with nothing returned and nothing released
WriteScanStep ==
    /\ pc = "write_recurse"
    /\ LET f == stack[Len(stack)]
           ret == nacm_data_write_xrule_xml(f.xn, prepvec[f.pv].pv_xrule,
                                            prepvec[f.pv].pv_xpathvec)
       IN  /\ f.at = "scan"
           /\ IF ret = SIGSEGV
              THEN /\ pc' = "crashed"
                   /\ UNCHANGED <<call, stack>>
              ELSE IF ret = 1
              THEN /\ stack' = ReturnFrom(stack, 0)
                   /\ call' = [call EXCEPT
                                 !.cbret = Append(@, "access denied"),
                                 !.ret = IF Len(stack) = 1 THEN 0 ELSE @]
                   /\ pc' = IF Len(stack) = 1 THEN "write_returned" ELSE pc
              ELSE /\ stack' = [stack EXCEPT ![Len(stack)] =
                                  IF ret = 2 THEN [f EXCEPT !.at = "each"]
                                  ELSE IF f.pv = Len(prepvec)
                                  THEN [f EXCEPT !.at = "default"]
                                  ELSE [f EXCEPT !.pv = f.pv + 1]]
                   /\ UNCHANGED <<call, pc>>
    /\ UNCHANGED <<mode, config, xnacm, username, xt, order, flags, prepvec, heap>>

\* behind a scan without match: the default decides
WriteDefault ==
    /\ pc = "write_recurse"
    /\ LET f == stack[Len(stack)]
       IN  /\ f.at = "default"
           /\ IF xnacm.write_default = "deny"
              THEN /\ stack' = ReturnFrom(stack, 0)
                   /\ call' = [call EXCEPT
                                 !.cbret = Append(@, "default deny"),
                                 !.ret = IF Len(stack) = 1 THEN 0 ELSE @]
                   /\ pc' = IF Len(stack) = 1 THEN "write_returned" ELSE pc
              ELSE /\ stack' = [stack EXCEPT ![Len(stack)].at = "each"]
                   /\ UNCHANGED <<call, pc>>
    /\ UNCHANGED <<mode, config, xnacm, username, xt, order, flags, prepvec, heap>>

\* the head of the loop over the children: the next child is checked by a
\* call of its own, and without a next child the node is accepted
WriteEach ==
    /\ pc = "write_recurse"
    /\ LET f == stack[Len(stack)]
           x == xml_child_each(f.xn, f.x, xt)
       IN  /\ f.at = "each"
           /\ IF x = NULL
              THEN /\ stack' = ReturnFrom(stack, 1)
                   /\ call' = [call EXCEPT
                                 !.ret = IF Len(stack) = 1 THEN 1 ELSE @]
                   /\ pc' = IF Len(stack) = 1 THEN "write_returned" ELSE pc
              ELSE /\ stack' = Append([stack EXCEPT ![Len(stack)].x = x],
                                      WriteFrame(x, prepvec))
                   /\ UNCHANGED <<call, pc>>
    /\ UNCHANGED <<mode, config, xnacm, username, xt, order, flags, prepvec, heap>>

\* behind the call for the child x: a denied child denies the node
WriteBack ==
    /\ pc = "write_recurse"
    /\ LET f == stack[Len(stack)]
       IN  /\ f.at = "back"
           /\ IF f.ret = 0
              THEN /\ stack' = ReturnFrom(stack, 0)
                   /\ call' = [call EXCEPT
                                 !.ret = IF Len(stack) = 1 THEN 0 ELSE @]
                   /\ pc' = IF Len(stack) = 1 THEN "write_returned" ELSE pc
              ELSE /\ stack' = [stack EXCEPT ![Len(stack)].at = "each"]
                   /\ UNCHANGED <<call, pc>>
    /\ UNCHANGED <<mode, config, xnacm, username, xt, order, flags, prepvec, heap>>

\* nacm_datanode_write behind the traversal: deny or permit
WriteLeave ==
    /\ pc = "write_returned"
    /\ call' = [call EXCEPT !.retval = IF call.ret = 0 THEN 0 ELSE 1]
    /\ pc' = "out"
    /\ UNCHANGED <<mode, config, xnacm, username, xt, order, flags, prepvec,
                   heap, stack>>

\* Faulty variant of Release: the queue is released behind a call that has
\* not failed only.
Release_onsuccess ==
    /\ pc = "out"
    /\ heap' = IF Len(prepvec) > 0 /\ call.retval >= 0
               THEN prepvec_free(heap, 1) ELSE heap
    /\ prepvec' = << >>
    /\ pc' = "done"
    /\ UNCHANGED <<mode, config, xnacm, username, xt, order, flags, call,
                   stack>>

\* the label done of nacm_datanode_read and of nacm_datanode_write, where
\* every way out of the two functions ends: the queue is released when there
\* is one, and the function returns
Release ==
    /\ pc = "out"
    /\ heap' = IF Len(prepvec) > 0 THEN prepvec_free(heap, 1) ELSE heap
    /\ prepvec' = << >>
    /\ pc' = "done"
    /\ UNCHANGED <<mode, config, xnacm, username, xt, order, flags, call,
                   stack>>

NextReadSteps ==
    \/ ReadEnter
    \/ ReadScanStep
    \/ ReadTest
    \/ ReadEach
    \/ ReadBack
    \/ ReadLeave

NextWriteSteps ==
    \/ WriteEnter
    \/ WriteScanStep
    \/ WriteDefault
    \/ WriteEach
    \/ WriteBack
    \/ WriteLeave

NextSteps == NextReadSteps \/ NextWriteSteps \/ Release

SpecSteps == InitSteps /\ [][NextSteps]_vars

\* the steps of one call follow one another without a scheduler in between:
\* a step that can be taken is taken
FairSteps == SpecSteps /\ WF_vars(NextSteps)

(***************************************************************************)
(* The calls taken step by step with the failures of the calls they make:  *)
(* an allocation or a lookup that fails in nacm_datanode_prepare, a        *)
(* function that fails in the traversal or behind it.                      *)
(***************************************************************************)
\* the rule-lists up to rule j of rule-list i, without that rule
RulesBefore(rlistvec, i, j) ==
    Append(SubSeq(rlistvec, 1, i - 1),
           [rlistvec[i] EXCEPT !.rule = SubSeq(@, 1, j - 1)])

\* the failures nacm_datanode_prepare can meet, each at rule j of rule-list
\* i: of xpath_vec for the rules of the rule-list (stage rule, j is 0), of
\* xml_nsctx_node, xpath2canonical or clixon_xml_find_instance_id (lookup),
\* of malloc in prepvec_add (malloc), of clixon_xvec_new in prepvec_add
\* (xvec_new), of clixon_xvec_append (append)
FaultPoints(tree, access, gvec, rlistvec) ==
    { f \in UNION { { [stage |-> s, i |-> i, j |-> j] :
                        s \in {"rule", "lookup", "malloc", "xvec_new", "append"},
                        j \in 0..Len(rlistvec[i].rule) } :
                    i \in DOMAIN rlistvec } :
        /\ GroupLoop(rlistvec[f.i], gvec, 1)
        /\ nacm_datanode_prepare(tree, access, gvec,
               RulesBefore(rlistvec, f.i,
                           IF f.j = 0 THEN 1 ELSE f.j)).retval = 0
        /\ f.stage # "rule" => access \in AccessModes
        /\ IF f.stage = "rule" THEN f.j = 0
           ELSE /\ f.j # 0
                /\ LET xrule == rlistvec[f.i].rule[f.j]
                       added ==
                         IF xrule.path = NULL
                         THEN /\ xrule.rpc_name = NULL
                              /\ xrule.notification_name = NULL
                         ELSE clixon_xml_find_instance_id(tree,
                                  xrule.path).ret # 0
                   IN  /\ match_access(xrule.access_operations, access,
                                       Mode2(access)) # 0
                       /\ f.stage = "lookup" => xrule.path # NULL
                       /\ f.stage \in {"malloc", "xvec_new"} => added
                       /\ f.stage = "append"
                          => /\ xrule.path # NULL
                             /\ added
                             /\ Len(clixon_xml_find_instance_id(tree,
                                        xrule.path).xvec) > 0 }

\* the queue nacm_datanode_prepare leaves behind when it fails at f: the
\* elements of the rules before, and the element of the rule itself when
\* prepvec_add has put it into the queue before the failure
PrepareFault(tree, access, gvec, rlistvec, f) ==
    LET before == nacm_datanode_prepare(tree, access, gvec,
                      RulesBefore(rlistvec, f.i,
                                  IF f.j = 0 THEN 1 ELSE f.j)).pv_list
    IN  IF f.stage \in {"xvec_new", "append"}
        THEN prepvec_add(before, rlistvec[f.i].rule[f.j], << >>)
        ELSE before

\* xml_nsctx_init fails at the head of either function; a failure of
\* xpath_vec for the groups or the rule-lists, and of netconf_access_denied
\* at step9 of nacm_datanode_write, ends the call in the same way: -1 is
\* returned, with no queue built, no message written and the tree as it was
EnterFail ==
    /\ pc = "idle"
    /\ call = NoCall
    /\ \/ \E xrvec \in StepRoots :
            call' = [fn |-> "nacm_datanode_read", xrvec |-> xrvec,
                     xt0 |-> xt, retval |-> -1]
       \/ \E rq \in StepRequests :
            call' = [fn |-> "nacm_datanode_write", xreq |-> rq.xreq,
                     access |-> rq.access, ret |-> 0, retval |-> -1,
                     cbret |-> << >>]
    /\ pc' = "out"
    /\ UNCHANGED <<mode, config, xnacm, username, xt, order, flags, prepvec,
                   heap, stack>>

\* nacm_datanode_read with a failure of nacm_datanode_prepare
ReadPrepareFail ==
    /\ pc = "idle"
    /\ call = NoCall
    /\ username # NULL
    /\ xnacm.read_default # NULL
    /\ \E xrvec \in StepRoots :
         LET gvec == xpath_vec_groups(xnacm, username) IN
         \E f \in FaultPoints(xt, "read", gvec, xnacm.rule_list) :
           LET pv_list == PrepareFault(xt, "read", gvec, xnacm.rule_list, f)
           IN  /\ prepvec' = pv_list
               /\ heap' = HeapOf(pv_list, f.stage = "xvec_new")
               /\ call' = [fn |-> "nacm_datanode_read", xrvec |-> xrvec,
                           xt0 |-> xt, retval |-> -1]
    /\ pc' = "out"
    /\ UNCHANGED <<mode, config, xnacm, username, xt, order, flags, stack>>

\* nacm_datanode_write with a failure of nacm_datanode_prepare
WritePrepareFail ==
    /\ pc = "idle"
    /\ call = NoCall
    /\ username # NULL
    /\ xnacm.write_default # NULL
    /\ \E rq \in StepRequests :
         LET gvec == xpath_vec_groups(xnacm, username) IN
         /\ Len(gvec) > 0
         /\ \E f \in FaultPoints(xt, rq.access, gvec, xnacm.rule_list) :
              LET pv_list == PrepareFault(xt, rq.access, gvec,
                                          xnacm.rule_list, f)
              IN  /\ prepvec' = pv_list
                  /\ heap' = HeapOf(pv_list, f.stage = "xvec_new")
                  /\ call' = [fn |-> "nacm_datanode_write",
                              xreq |-> rq.xreq, access |-> rq.access,
                              ret |-> 0, retval |-> -1, cbret |-> << >>]
    /\ pc' = "out"
    /\ UNCHANGED <<mode, config, xnacm, username, xt, order, flags, stack>>

\* a failure in the read traversal: of ys_module_by_xml or
\* nacm_data_read_action in the test of an entry, or of xml_purge; every call
\* in progress returns -1
ReadFail ==
    /\ pc = "recurse"
    /\ LET f == stack[Len(stack)]
       IN  \/ /\ f.at = "scan"
              /\ \/ prepvec[f.pv].pv_xrule.module_name \notin {NULL, "*"}
                 \/ nacm_data_read_xrule_xml(f.xn, prepvec[f.pv].pv_xrule,
                        prepvec[f.pv].pv_xpathvec,
                        [xt |-> xt, flags |-> flags]).ret = 1
           \/ /\ f.at = "back"
              /\ xml_flag(flags, f.x, XML_FLAG_DEL)
    /\ stack' = << >>
    /\ pc' = "out"
    /\ UNCHANGED <<mode, config, xnacm, username, xt, order, flags, call,
                   prepvec, heap>>

\* a failure in the write traversal: of ys_module_by_xml in the test of an
\* entry, or of netconf_access_denied; every call in progress returns -1
WriteFail ==
    /\ pc = "write_recurse"
    /\ LET f == stack[Len(stack)]
       IN  \/ /\ f.at = "scan"
              /\ \/ prepvec[f.pv].pv_xrule.module_name \notin {NULL, "*"}
                 \/ nacm_data_write_xrule_xml(f.xn, prepvec[f.pv].pv_xrule,
                        prepvec[f.pv].pv_xpathvec) = 1
           \/ /\ f.at = "default"
              /\ xnacm.write_default = "deny"
    /\ stack' = << >>
    /\ pc' = "out"
    /\ UNCHANGED <<mode, config, xnacm, username, xt, order, flags, call,
                   prepvec, heap>>

\* a failure behind the read traversal: of xml_tree_prune_flagged_sub, which
\* leaves the tree as it is or pruned, or of xml_apply
LeaveFail ==
    /\ pc = "step8"
    /\ \/ UNCHANGED <<xt, flags>>
       \/ /\ xnacm.read_default = "deny"
          /\ LET st == xml_tree_prune_flagged_sub(
                           [xt |-> xt, flags |-> flags], XML_FLAG_MARK)
             IN  xt' = st.xt /\ flags' = st.flags
    /\ pc' = "out"
    /\ UNCHANGED <<mode, config, xnacm, username, order, call, prepvec, heap,
                   stack>>

\* step9 of nacm_datanode_read for an unknown user with a failure of
\* xml_purge at the i-th requested node: the requested nodes before it are
\* purged, that node and the ones behind it are left, and the call returns -1
PurgeFail ==
    /\ pc = "idle"
    /\ call = NoCall
    /\ username = NULL
    /\ \E xrvec \in StepRoots :
         \E i \in DOMAIN xrvec :
           LET st9 == PurgeLoop(SubSeq(xrvec, 1, i - 1), 1,
                                [xt |-> xt, flags |-> flags])
           IN  /\ xt' = st9.xt
               /\ flags' = st9.flags
               /\ call' = [fn |-> "nacm_datanode_read", xrvec |-> xrvec,
                           xt0 |-> xt, retval |-> -1]
    /\ pc' = "out"
    /\ UNCHANGED <<mode, config, xnacm, username, order, prepvec, heap,
                   stack>>

NextFaults ==
    \/ NextSteps
    \/ EnterFail
    \/ PurgeFail
    \/ ReadPrepareFail
    \/ WritePrepareFail
    \/ ReadFail
    \/ WriteFail
    \/ LeaveFail

\* a rule without action leaf on a path and on any node, next to a rule
\* with one
ActionlessRules ==
    { Rule("*", NULL, "/r/y", NULL, "*", NULL),
      Rule("m2", NULL, NULL, NULL, "create update", NULL),
      Rule("m1", NULL, NULL, NULL, "*", "permit") }

\* the policies of the traversals, and policies with rules without action
\* leaf
FaultPolicies ==
    StepPolicies \cup
    { Policy("true", df, df, "permit", rl) :
        df \in { "permit", "deny" }, rl \in RuleListVecs(ActionlessRules) }

InitFaults ==
    /\ mode = "internal"
    /\ config = "nacm"
    /\ xnacm \in FaultPolicies
    /\ username \in { NULL, "u1" }
    /\ xt = Nodes
    /\ order = NodeOrder
    /\ flags = NoFlags
    /\ call = NoCall
    /\ pc = "idle"
    /\ prepvec = << >>
    /\ stack = << >>
    /\ heap = << >>

SpecFaults == InitFaults /\ [][NextFaults]_vars

(***************************************************************************)
(* NACM pre-processing.                                                    *)
(***************************************************************************)
\* clicon_nacm_recovery_user(h): option CLICON_NACM_RECOVERY_USER
clicon_nacm_recovery_user == "_nacm_recovery"

\* the failure as the function called sees it, after the caller has made
\* made calls of fn itself: the n-th call of the evaluation is the call
\* n - made of the function called
Later(fault, fn, made) ==
    IF fault.fn = fn THEN [fault EXCEPT !.n = @ - made] ELSE fault

\* Faulty variant of nacm_access: a policy without enable-nacm leaf counts
\* as enabled.
nacm_access_absentenabled(nacm, user, fault) ==
    IF Fails(fault, "xml_nsctx_init", 1) THEN -1
    ELSE IF nacm.enable_nacm # NULL /\ nacm.enable_nacm # "true" THEN 1
    ELSE IF user # NULL /\ user = clicon_nacm_recovery_user THEN 1
    ELSE 0

\* Faulty variant of nacm_access: no recovery session.
nacm_access_norecovery(nacm, user, fault) ==
    IF Fails(fault, "xml_nsctx_init", 1) THEN -1
    ELSE IF nacm.enable_nacm = NULL THEN 1
    ELSE IF nacm.enable_nacm # "true" THEN 1
    ELSE 0

\* nacm_access: 1 permitted, 0 not permitted yet, -1 when xml_nsctx_init
\* fails
nacm_access(nacm, user, fault) ==
    IF Fails(fault, "xml_nsctx_init", 1) THEN -1
    ELSE IF nacm.enable_nacm = NULL THEN 1
    ELSE IF nacm.enable_nacm # "true" THEN 1
    ELSE IF user # NULL /\ user = clicon_nacm_recovery_user THEN 1
    ELSE 0

\* values of option CLICON_NACM_MODE
NacmModes == { NULL, "disabled", "external", "internal", "bogus" }

\* what the policy source holds: no tree at all, a tree without nacm
\* element, a tree with the nacm element xnacm
Configs == { "none", "nonacm", "nacm" }

\* Faulty variant of nacm_access_pre: a mode that is not recognised counts as
\* disabled.
nacm_access_pre_badmodepermit(md, cfg, nacm, user, fault) ==
    IF md = NULL THEN [retval |-> 1, xnacmp |-> XNULL]
    ELSE IF md # "external" /\ md # "internal"
    THEN [retval |-> 1, xnacmp |-> XNULL]
    ELSE IF md = "external" /\ cfg # "none" /\ Fails(fault, "xml_dup", 1)
    THEN [retval |-> -1, xnacmp |-> XNULL]
    ELSE IF md = "internal" /\ Fails(fault, "xmldb_get0", 1)
    THEN [retval |-> -1, xnacmp |-> XNULL]
    ELSE IF Fails(fault, "xml_nsctx_init", 1)
    THEN [retval |-> -1, xnacmp |-> XNULL]
    ELSE IF cfg = "none" THEN [retval |-> 1, xnacmp |-> XNULL]
    ELSE IF cfg = "nonacm" THEN [retval |-> 1, xnacmp |-> XNULL]
    ELSE IF Fails(fault, "xml_rootchild_node", 1)
    THEN [retval |-> -1, xnacmp |-> XNULL]
    ELSE LET retval == nacm_access(nacm, user,
                                   Later(fault, "xml_nsctx_init", 1))
         IN  IF retval = 0 THEN [retval |-> 0, xnacmp |-> nacm]
             ELSE [retval |-> retval, xnacmp |-> XNULL]

\* nacm_access_pre: retval and the tree handed out in *xnacmp (XNULL when it
\* is not assigned).  In mode external the policy source is copied with
\* xml_dup when there is one, in mode internal it is read with xmldb_get0;
\* a failure of one of them, of xml_nsctx_init, of xml_rootchild_node or
\* of nacm_access ends the call with -1 and nothing handed out
nacm_access_pre(md, cfg, nacm, user, fault) ==
    IF md = NULL THEN [retval |-> 1, xnacmp |-> XNULL]
    ELSE IF md = "disabled" THEN [retval |-> 1, xnacmp |-> XNULL]
    ELSE IF md # "external" /\ md # "internal"
    THEN [retval |-> -1, xnacmp |-> XNULL]
    ELSE IF md = "external" /\ cfg # "none" /\ Fails(fault, "xml_dup", 1)
    THEN [retval |-> -1, xnacmp |-> XNULL]
    ELSE IF md = "internal" /\ Fails(fault, "xmldb_get0", 1)
    THEN [retval |-> -1, xnacmp |-> XNULL]
    ELSE IF Fails(fault, "xml_nsctx_init", 1)
    THEN [retval |-> -1, xnacmp |-> XNULL]
    ELSE IF cfg = "none" THEN [retval |-> 1, xnacmp |-> XNULL]
    ELSE IF cfg = "nonacm" THEN [retval |-> 1, xnacmp |-> XNULL]
    ELSE IF Fails(fault, "xml_rootchild_node", 1)
    THEN [retval |-> -1, xnacmp |-> XNULL]
    ELSE LET retval == nacm_access(nacm, user,
                                   Later(fault, "xml_nsctx_init", 1))
         IN  IF retval = 0 THEN [retval |-> 0, xnacmp |-> nacm]
             ELSE [retval |-> retval, xnacmp |-> XNULL]

\* rules and policies of the pre-processing specification
PreRules ==
    { Rule("*", NULL, NULL, NULL, "*", "deny"),
      Rule("*", NULL, NULL, NULL, "*", "permit") }

PrePolicies ==
    { Policy(en, df, df, df, rl) :
        en \in { NULL, "true", "false" }, df \in { "permit", "deny" },
        rl \in RuleListVecs(PreRules) }

PreUsers == { NULL, "u1", "u2", clicon_nacm_recovery_user }

InitPre ==
    /\ mode \in NacmModes
    /\ config \in Configs
    /\ IF config = "nacm" THEN xnacm \in PrePolicies ELSE xnacm = XNULL
    /\ username \in PreUsers
    /\ xt = Nodes
    /\ order = NodeOrder
    /\ flags = NoFlags
    /\ call = NoCall
    /\ pc = "idle"
    /\ prepvec = << >>
    /\ stack = << >>
    /\ heap = << >>

\* the failures a call of nacm_access_pre can meet: of the copy or the read
\* of the policy source, of xml_nsctx_init in nacm_access_pre (call 1) or
\* in nacm_access (call 2), of xml_rootchild_node
PreFaults ==
    { NoFault, [fn |-> "xml_dup", n |-> 1], [fn |-> "xmldb_get0", n |-> 1],
      [fn |-> "xml_nsctx_init", n |-> 1], [fn |-> "xml_nsctx_init", n |-> 2],
      [fn |-> "xml_rootchild_node", n |-> 1] }

\* a call of nacm_access_pre, in which one of the calls it makes may fail;
\* it reads the handle and the policy source only, so each behaviour makes
\* one call.  failed tells that the call has met the failure
AccessPre ==
    /\ call = NoCall
    /\ \E fault \in PreFaults :
         LET r == nacm_access_pre(mode, config, xnacm, username, fault)
         IN  call' = [fn |-> "nacm_access_pre", retval |-> r.retval,
                      xnacmp |-> r.xnacmp,
                      failed |-> r # nacm_access_pre(mode, config, xnacm,
                                                     username, NoFault)]
    /\ UNCHANGED <<mode, config, xnacm, username, xt, order, flags, pc, prepvec, heap, stack>>

NextPre == AccessPre

SpecPre == InitPre /\ [][NextPre]_vars

(***************************************************************************)
(* The three access validations called on one policy.                      *)
(***************************************************************************)
\* rules of the three kinds: for any request, for an rpc, for data nodes
NacmRules ==
    { Rule("*", NULL, NULL, NULL, "*", "permit"),
      Rule("*", "*", NULL, NULL, "read exec", "deny"),
      Rule("m1", NULL, NULL, NULL, "read create", "permit"),
      Rule("*", NULL, "/r/x", NULL, "*", "deny") }

NacmPolicies ==
    { Policy("true", df, df, df, rl) :
        df \in Defaults, rl \in RuleListVecs(NacmRules) }

InitNacm ==
    /\ mode = "internal"
    /\ config = "nacm"
    /\ xnacm \in NacmPolicies
    /\ username \in Users
    /\ xt = Nodes
    /\ order = NodeOrder
    /\ flags = NoFlags
    /\ call = NoCall
    /\ pc = "idle"
    /\ prepvec = << >>
    /\ stack = << >>
    /\ heap = << >>

NextNacm == Rpc \/ DatanodeWrite \/ DatanodeRead

SpecNacm == InitNacm /\ [][NextNacm]_vars

(***************************************************************************)
(* nacm_datanode_prepare for every access, on a tree with and without the  *)
(* node <x/>.                                                              *)
(***************************************************************************)
PreparePolicies ==
    { Policy("true", "permit", "deny", "permit", rl) :
        rl \in RuleListVecs(DataRules) }

PrepareTrees == { Nodes, Nodes \ {"x"} }

InitPrepare ==
    /\ mode = "internal"
    /\ config = "nacm"
    /\ xnacm \in PreparePolicies
    /\ username \in { "u1", "u2" }
    /\ xt \in PrepareTrees
    /\ order = NodeOrder
    /\ flags = NoFlags
    /\ call = NoCall
    /\ pc = "idle"
    /\ prepvec = << >>
    /\ stack = << >>
    /\ heap = << >>

\* a call of nacm_datanode_prepare as nacm_datanode_write and
\* nacm_datanode_read make it: with the groups of the user, for an access
\* other than read only when the user has a group
Prepare ==
    /\ call = NoCall
    /\ \E access \in NacmAccessValues :
         LET gvec == xpath_vec_groups(xnacm, username)
             prep == nacm_datanode_prepare(xt, access, gvec, xnacm.rule_list)
         IN  /\ access = "read" \/ Len(gvec) # 0
             /\ call' = [fn |-> "nacm_datanode_prepare", access |-> access,
                         retval |-> prep.retval, pv_list |-> prep.pv_list]
    /\ UNCHANGED <<mode, config, xnacm, username, xt, order, flags, pc, prepvec, heap, stack>>

NextPrepare == Prepare

SpecPrepare == InitPrepare /\ [][NextPrepare]_vars

(***************************************************************************)
(* Datanode write and read on policies whose paths select no node.         *)
(***************************************************************************)
\* data-node rules whose path has no instance in the tree, next to rules
\* with an instance and rules without path
EmptyPathRules ==
    { Rule("*", NULL, "/r/gone", NULL, "*", "deny"),
      Rule("m1", NULL, "/r/gone", NULL, "*", "permit"),
      Rule("*", NULL, "/r/x", NULL, "*", "deny"),
      Rule("*", NULL, NULL, NULL, "*", "permit"),
      Rule("m2", NULL, NULL, NULL, "read write", "deny") }

EmptyPathPolicies ==
    { Policy("true", df, df, "permit", rl) :
        df \in { "permit", "deny" }, rl \in RuleListVecs(EmptyPathRules) }

InitEmptyPath ==
    /\ mode = "internal"
    /\ config = "nacm"
    /\ xnacm \in EmptyPathPolicies
    /\ username \in { "u1", "u2" }
    /\ xt = Nodes
    /\ order = NodeOrder
    /\ flags = NoFlags
    /\ call = NoCall
    /\ pc = "idle"
    /\ prepvec = << >>
    /\ stack = << >>
    /\ heap = << >>

NextEmptyPath == DatanodeWrite \/ DatanodeRead

SpecEmptyPath == InitEmptyPath /\ [][NextEmptyPath]_vars

(***************************************************************************)
(* match_access on the access-operations values that are lists of tokens.  *)
(***************************************************************************)
\* the bit names of access-operations, the short-hand "write" and the
\* special value "*"
AccessTokens == { "create", "read", "update", "delete", "exec", "write", "*" }

\* the text of a leaf that holds the tokens of toks, separated by a space
RECURSIVE JoinTokens(_)
JoinTokens(toks) ==
    IF Len(toks) = 0 THEN ""
    ELSE IF Len(toks) = 1 THEN toks[1]
    ELSE toks[1] \o " " \o JoinTokens(Tail(toks))

\* the token lists of at most MaxTokens tokens
TokenLists == SeqsUpTo(AccessTokens, MaxTokens)

\* the calls of match_access in clixon_nacm.c: the primary mode and the
\* secondary mode
MatchModes ==
    { [mode1 |-> "exec", mode2 |-> NULL] }
    \cup { [mode1 |-> a, mode2 |-> Mode2(a)] : a \in AccessModes }

InitMatch ==
    /\ mode = "internal"
    /\ config = "nacm"
    /\ xnacm = Policy("true", "permit", "deny", "permit", << >>)
    /\ username = "u1"
    /\ xt = Nodes
    /\ order = NodeOrder
    /\ flags = NoFlags
    /\ call = NoCall
    /\ pc = "idle"
    /\ prepvec = << >>
    /\ stack = << >>
    /\ heap = << >>

\* a call of match_access on an access-operations leaf that is absent or
\* holds a list of tokens
MatchAccess ==
    /\ call = NoCall
    /\ \E toks \in TokenLists, present \in BOOLEAN, m \in MatchModes :
         LET access_operations ==
                 IF present THEN JoinTokens(toks) ELSE NULL
         IN  /\ ~present => toks = << >>
             /\ call' = [fn |-> "match_access", tokens |-> toks,
                         access_operations |-> access_operations,
                         mode1 |-> m.mode1, mode2 |-> m.mode2,
                         retval |-> match_access(access_operations,
                                                 m.mode1, m.mode2)]
    /\ UNCHANGED <<mode, config, xnacm, username, xt, order, flags, pc, prepvec, heap, stack>>

NextMatch == MatchAccess

SpecMatch == InitMatch /\ [][NextMatch]_vars

(***************************************************************************)
(* nacm_rule_rpc on the rules of every rule-type.                          *)
(***************************************************************************)
\* the rule-type of a rule: at most one of rpc-name, path and
\* notification-name
RuleTypes ==
    { [rpc_name |-> NULL, path |-> NULL, notification_name |-> NULL],
      [rpc_name |-> "*", path |-> NULL, notification_name |-> NULL],
      [rpc_name |-> "kill-session", path |-> NULL, notification_name |-> NULL],
      [rpc_name |-> "reset", path |-> NULL, notification_name |-> NULL],
      [rpc_name |-> NULL, path |-> "/r", notification_name |-> NULL],
      [rpc_name |-> NULL, path |-> NULL, notification_name |-> "link-up"] }

RuleRpcRules ==
    { Rule(mn, t.rpc_name, t.path, t.notification_name, ops, act) :
        mn \in { NULL, "*", "ietf-netconf", "example" },
        t \in RuleTypes,
        ops \in { NULL, "*", "exec", "read", "read exec" },
        act \in { "permit", "deny" } }

InitRuleRpc ==
    /\ mode = "internal"
    /\ config = "nacm"
    /\ xnacm = Policy("true", "permit", "deny", "permit", << >>)
    /\ username = "u1"
    /\ xt = Nodes
    /\ order = NodeOrder
    /\ flags = NoFlags
    /\ call = NoCall
    /\ pc = "idle"
    /\ prepvec = << >>
    /\ stack = << >>
    /\ heap = << >>

\* a call of nacm_rule_rpc on one rule and one rpc
RuleRpc ==
    /\ call = NoCall
    /\ \E xrule \in RuleRpcRules, rq \in RpcRequests :
         call' = [fn |-> "nacm_rule_rpc", rpc |-> rq.rpc, module |-> rq.module,
                  xrule |-> xrule,
                  retval |-> nacm_rule_rpc(rq.rpc, rq.module, xrule)]
    /\ UNCHANGED <<mode, config, xnacm, username, xt, order, flags, pc, prepvec, heap, stack>>

NextRuleRpc == RuleRpc

SpecRuleRpc == InitRuleRpc /\ [][NextRuleRpc]_vars

(***************************************************************************)
(* Properties of nacm_rpc.                                                 *)
(***************************************************************************)
\* names of the groups whose user-name leaf-list holds the user
UserGroupNames(nacm, user) ==
    { g.name : g \in { h \in Range(nacm.groups) : user \in h.user_name } }

\* rule-lists of the policy that apply to the user
Applicable(nacm, user) ==
    { i \in DOMAIN nacm.rule_list :
        nacm.rule_list[i].group \cap UserGroupNames(nacm, user) # {} }

\* positions <<rule-list, rule>> of the policy
Positions(nacm) ==
    UNION { { <<i, j>> : j \in DOMAIN nacm.rule_list[i].rule } :
            i \in DOMAIN nacm.rule_list }

Before(p, q) == p[1] < q[1] \/ (p[1] = q[1] /\ p[2] < q[2])

RuleAt(nacm, p) == nacm.rule_list[p[1]].rule[p[2]]

\* positions of the rules of applicable rule-lists that match the rpc
RpcMatchPos(nacm, user, rpc, module) ==
    { p \in Positions(nacm) :
        /\ p[1] \in Applicable(nacm, user)
        /\ nacm_rule_rpc(rpc, module, RuleAt(nacm, p)) = 1 }

HasRpcMatch(nacm, user, rpc, module) ==
    /\ user # NULL
    /\ RpcMatchPos(nacm, user, rpc, module) # {}

FirstRpcMatch(nacm, user, rpc, module) ==
    CHOOSE p \in RpcMatchPos(nacm, user, rpc, module) :
        \A q \in RpcMatchPos(nacm, user, rpc, module) : q = p \/ Before(p, q)

\* the policy without the rule at position p
RemoveRule(nacm, p) ==
    [nacm EXCEPT !.rule_list[p[1]].rule =
        SubSeq(@, 1, p[2] - 1) \o SubSeq(@, p[2] + 1, Len(@))]

\* the policy with rule r inserted in rule-list i so that it becomes rule k
InsertRule(nacm, i, k, r) ==
    [nacm EXCEPT !.rule_list[i].rule =
        SubSeq(@, 1, k - 1) \o << r >> \o SubSeq(@, k, Len(@))]

\* policies that differ from nacm by one rule removed or inserted after p
ChangedAfter(nacm, p, U) ==
    { RemoveRule(nacm, q) : q \in { q \in Positions(nacm) : Before(p, q) } }
    \cup
    { InsertRule(nacm, p[1], k, r) :
        k \in (p[2] + 1)..(Len(nacm.rule_list[p[1]].rule) + 1), r \in U }
    \cup
    UNION { { InsertRule(nacm, i, k, r) :
                k \in 1..Len(nacm.rule_list[i].rule) + 1, r \in U } :
            i \in { i \in DOMAIN nacm.rule_list : i > p[1] } }

\* a call of nacm_rpc that has come to a verdict: none of the calls it makes
\* has failed (a failure of xml_nsctx_init, xpath_vec or netconf_access_denied
\* ends the evaluation with -1, and the caller gets no verdict)
IsRpcCall == call.fn = "nacm_rpc" /\ call.retval # -1

\* C1: in nacm_rpc, for a user with a group and an rpc other than
\* close-session, the first rule in document order, of the first applicable
\* rule-list in document order that holds a matching rule, decides: Permit
\* when its action is permit, Deny when it is deny; so removing or inserting
\* a rule after that rule leaves the verdict as it is.
C1_FirstMatchWins ==
    (/\ IsRpcCall
     /\ call.rpc # "close-session"
     /\ HasRpcMatch(xnacm, username, call.rpc, call.module))
    => LET p == FirstRpcMatch(xnacm, username, call.rpc, call.module)
           action == RuleAt(xnacm, p).action
       IN  /\ action = "permit" => call.retval = 1
           /\ action = "deny" => call.retval = 0
           /\ \A other \in ChangedAfter(xnacm, p, RpcRules) :
                nacm_rpc(call.rpc, call.module, username, other, NoFault).retval
                  = call.retval

\* a later rule that matches the rpc prescribes the opposite of the first
C1_Witness ==
    /\ IsRpcCall
    /\ call.rpc # "close-session"
    /\ HasRpcMatch(xnacm, username, call.rpc, call.module)
    /\ LET mp == RpcMatchPos(xnacm, username, call.rpc, call.module)
           p == FirstRpcMatch(xnacm, username, call.rpc, call.module)
       IN  /\ RuleAt(xnacm, p).action = "deny"
           /\ call.retval = 0
           /\ \E q \in mp : Before(p, q) /\ RuleAt(xnacm, q).action = "permit"

\* C5: in nacm_rpc, kill-session and delete-config that no applicable rule
\* matches (also for an unknown user and a user in no group) are denied with
\* "default deny" whatever exec-default is; they are permitted only when the
\* first matching rule has action permit.
C5_KillDeleteDefaultDeny ==
    (IsRpcCall /\ call.rpc \in {"kill-session", "delete-config"})
    => /\ ~HasRpcMatch(xnacm, username, call.rpc, call.module)
            => (call.retval = 0 /\ call.cbret = << "default deny" >>)
       /\ call.retval = 1
            => /\ HasRpcMatch(xnacm, username, call.rpc, call.module)
               /\ RuleAt(xnacm, FirstRpcMatch(xnacm, username, call.rpc,
                                              call.module)).action = "permit"

\* delete-config of a user in no group under exec-default permit and a policy
\* holding a rule that would permit it
C5_Witness ==
    /\ IsRpcCall
    /\ call.rpc = "delete-config"
    /\ username = "u2"
    /\ xnacm.exec_default = "permit"
    /\ \E p \in Positions(xnacm) :
         /\ nacm_rule_rpc(call.rpc, call.module, RuleAt(xnacm, p)) = 1
         /\ RuleAt(xnacm, p).action = "permit"
    /\ call.retval = 0
    /\ call.cbret = << "default deny" >>

\* C6: nacm_rpc permits close-session for every policy, user, group
\* membership and rule set, also when the first matching rule denies it and
\* exec-default is deny.
C6_CloseSessionPermit ==
    (IsRpcCall /\ call.rpc = "close-session")
    => (call.retval = 1 /\ call.cbret = << >>)

\* close-session with a first matching rule of action deny and exec-default
\* deny
C6_Witness ==
    /\ IsRpcCall
    /\ call.rpc = "close-session"
    /\ xnacm.exec_default = "deny"
    /\ HasRpcMatch(xnacm, username, call.rpc, call.module)
    /\ RuleAt(xnacm, FirstRpcMatch(xnacm, username, call.rpc,
                                   call.module)).action = "deny"
    /\ call.retval = 1

\* the default step of nacm_rpc is reached: the user is unknown, or in no
\* group, or no rule of an applicable rule-list matches
RpcDefaultStep ==
    \/ username = NULL
    \/ UserGroupNames(xnacm, username) = {}
    \/ ~HasRpcMatch(xnacm, username, call.rpc, call.module)

\* C7: for an rpc other than close-session, kill-session and delete-config
\* that reaches the default step, nacm_rpc permits iff exec-default is absent
\* or permit, and otherwise denies with "default deny".
C7_ExecDefault ==
    (/\ IsRpcCall
     /\ call.rpc \notin {"close-session", "kill-session", "delete-config"}
     /\ RpcDefaultStep)
    => IF xnacm.exec_default = NULL \/ xnacm.exec_default = "permit"
       THEN call.retval = 1
       ELSE call.retval = 0 /\ call.cbret = << "default deny" >>

\* a user with groups whose rule-lists hold no matching rule, with the
\* exec-default leaf absent
C7_Witness ==
    /\ IsRpcCall
    /\ call.rpc = "edit-config"
    /\ username = "u1"
    /\ Applicable(xnacm, username) # {}
    /\ ~HasRpcMatch(xnacm, username, call.rpc, call.module)
    /\ xnacm.exec_default = NULL
    /\ call.retval = 1

(***************************************************************************)
(* Properties of nacm_datanode_write.                                      *)
(***************************************************************************)
IsWriteCall == call.fn = "nacm_datanode_write"

\* the ancestors of a node, up to but without the top
RECURSIVE AncestorsOf(_)
AncestorsOf(n) ==
    IF Parent[n] = Top THEN {} ELSE {Parent[n]} \cup AncestorsOf(Parent[n])

\* the nodes of tree in the subtree of root
SubtreeIn(root, tree) == { n \in tree : n = root \/ root \in AncestorsOf(n) }

\* cache entry e = (R, P) matches node X
EntryMatches(e, X) ==
    /\ e.pv_xrule.module_name = "*" \/ e.pv_xrule.module_name = ModuleOf[X]
    /\ \/ e.pv_xrule.path = NULL
       \/ X \in Range(e.pv_xpathvec)
       \/ AncestorsOf(X) \cap Range(e.pv_xpathvec) # {}

\* the action of the first entry of the cache that matches X, NULL when no
\* entry matches
FirstMatchAction(cache, X) ==
    LET ms == { k \in DOMAIN cache : EntryMatches(cache[k], X) }
    IN  IF ms = {} THEN NULL
        ELSE cache[CHOOSE k \in ms : \A l \in ms : k <= l].pv_xrule.action

\* the cache built for the user, the access and the tree
CacheOf(nacm, user, access, tree) ==
    nacm_datanode_prepare(tree, access, xpath_vec_groups(nacm, user),
                          nacm.rule_list).pv_list

\* node X passes the write check
WriteNodeOk(cache, nacm, X) ==
    \/ FirstMatchAction(cache, X) = "permit"
    \/ FirstMatchAction(cache, X) = NULL /\ nacm.write_default = "permit"

\* C2: nacm_datanode_write, for a user with a group (on a policy with its
\* write-default leaf), permits iff every node X of the requested subtree
\* passes: the first cache entry matching X has action permit, or none
\* matches X and write-default is permit; otherwise it denies.
C2_WriteVerdict ==
    (/\ IsWriteCall
     /\ xnacm # XNULL
     /\ xnacm.write_default # NULL
     /\ username # NULL
     /\ UserGroupNames(xnacm, username) # {})
    => LET cache == CacheOf(xnacm, username, call.access, xt)
       IN  IF \A X \in SubtreeIn(call.xreq, xt) : WriteNodeOk(cache, xnacm, X)
           THEN call.retval = 1
           ELSE call.retval = 0

\* the requested node itself passes by a permit rule and a node below it
\* is denied by a rule
C2_Witness ==
    /\ IsWriteCall
    /\ xnacm # XNULL
    /\ xnacm.write_default = "permit"
    /\ username = "u1"
    /\ LET cache == CacheOf(xnacm, username, call.access, xt)
       IN  /\ FirstMatchAction(cache, call.xreq) = "permit"
           /\ \E X \in SubtreeIn(call.xreq, xt) :
                FirstMatchAction(cache, X) = "deny"
    /\ call.retval = 0

\* C10: nacm_datanode_write on a policy without write-default leaf ends in
\* an error (-1) with nothing written to cbret, for every user, access and
\* rule set.
C10_NoWriteDefaultIsError ==
    (IsWriteCall /\ xnacm # XNULL /\ xnacm.write_default = NULL)
    => (call.retval = -1 /\ call.cbret = << >>)

\* a user with a group whose rules permit every node of the request, on a
\* policy without write-default
C10_Witness ==
    /\ IsWriteCall
    /\ xnacm # XNULL
    /\ xnacm.write_default = NULL
    /\ username = "u1"
    /\ LET cache == CacheOf(xnacm, username, call.access, xt)
       IN  \A X \in SubtreeIn(call.xreq, xt) :
             FirstMatchAction(cache, X) = "permit"
    /\ call.retval = -1

\* the index of the first entry of the cache that matches X, 0 when no entry
\* matches
FirstMatchIndex(cache, X) ==
    LET ms == { k \in DOMAIN cache : EntryMatches(cache[k], X) }
    IN  IF ms = {} THEN 0 ELSE CHOOSE k \in ms : \A l \in ms : k <= l

\* the nodes of tree below X
DescendantsIn(X, tree) == SubtreeIn(X, tree) \ {X}

\* the call was made on a policy that has its write-default leaf
WriteCallWithDefault ==
    /\ IsWriteCall
    /\ xnacm # XNULL
    /\ xnacm.write_default # NULL

\* C11 as stated (P6): when the requested node X is denied for the write
\* (its first matching rule is deny, or no rule matches it and write-default
\* is deny), a write request rooted at any descendant Y of X, for the same
\* policy, user, tree and access, is denied too.
C11_DescendantsDenied ==
    (/\ WriteCallWithDefault
     /\ ~WriteNodeOk(CacheOf(xnacm, username, call.access, xt), xnacm,
                     call.xreq))
    => /\ call.retval = 0
       /\ \A Y \in DescendantsIn(call.xreq, xt) :
            nacm_datanode_write(Y, xt, call.access, username, xnacm).retval = 0

\* C11 amended: when the requested node X is denied because its first
\* matching rule R is deny, a write request rooted at a descendant Y of X is
\* denied with "access denied" provided R's module-name is "*" or the module
\* of Y and no cache entry before R matches Y.
C11_DescendantDenyByRule ==
    (/\ WriteCallWithDefault
     /\ FirstMatchAction(CacheOf(xnacm, username, call.access, xt),
                         call.xreq) = "deny")
    => LET cache == CacheOf(xnacm, username, call.access, xt)
           k == FirstMatchIndex(cache, call.xreq)
           R == cache[k].pv_xrule
       IN  /\ call.retval = 0
           /\ \A Y \in DescendantsIn(call.xreq, xt) :
                (/\ R.module_name = "*" \/ R.module_name = ModuleOf[Y]
                 /\ \A l \in 1..(k - 1) : ~EntryMatches(cache[l], Y))
                => nacm_datanode_write(Y, xt, call.access, username, xnacm)
                     = Result(0, << "access denied" >>)

\* scenario S4: a deny rule on the path of <y/> denies a write on <y/>, and
\* with it a write on <z/> below, under write-default permit
C11_Witness ==
    /\ WriteCallWithDefault
    /\ xnacm.write_default = "permit"
    /\ call.xreq = "y"
    /\ "z" \in xt
    /\ LET cache == CacheOf(xnacm, username, call.access, xt)
           k == FirstMatchIndex(cache, "y")
       IN  /\ k # 0
           /\ cache[k].pv_xrule.action = "deny"
           /\ cache[k].pv_xrule.path = "/r/y"
           /\ FirstMatchIndex(cache, "z") = k
    /\ call.retval = 0
    /\ nacm_datanode_write("z", xt, call.access, username, xnacm).retval = 0

\* the rule is taken into the cache for the access and, with the node set
\* resolved for it, matches node X
WriteRuleMatches(xrule, access, tree, X) ==
    LET pv == PrepRuleLoop(tree, access, << xrule >>, 1, << >>).pv_list
    IN  /\ pv # << >>
        /\ nacm_data_write_xrule_xml(X, xrule, pv[1].pv_xpathvec) # 0

\* positions of the rules of applicable rule-lists that match X for the write
WriteMatchPos(nacm, user, access, tree, X) ==
    { p \in Positions(nacm) :
        /\ p[1] \in Applicable(nacm, user)
        /\ WriteRuleMatches(RuleAt(nacm, p), access, tree, X) }

\* the first of a non-empty set of positions, and the last
FirstPos(S) == CHOOSE p \in S : \A q \in S : q = p \/ Before(p, q)
LastPos(S) == CHOOSE p \in S : \A q \in S : q = p \/ Before(q, p)

\* the requested node of the call has a first matching rule, of action permit
WriteRootPermitted ==
    /\ WriteCallWithDefault
    /\ username # NULL
    /\ WriteMatchPos(xnacm, username, call.access, xt, call.xreq) # {}
    /\ RuleAt(xnacm, FirstPos(WriteMatchPos(xnacm, username, call.access, xt,
                                            call.xreq))).action = "permit"

\* C12 as stated (P3 for write, design note 3): once the requested node X
\* matches a permit rule R as its first match, removing or inserting a rule
\* after R leaves the verdict of the write request as it is.
C12_LaterRulesIgnored ==
    WriteRootPermitted
    => LET p == FirstPos(WriteMatchPos(xnacm, username, call.access, xt,
                                       call.xreq))
       IN  \A other \in ChangedAfter(xnacm, p, DataRules) :
             nacm_datanode_write(call.xreq, xt, call.access, username,
                                 other).retval = call.retval

\* the first matching rules of the nodes of the requested subtree
SubtreeFirstMatches ==
    { FirstPos(WriteMatchPos(xnacm, username, call.access, xt, Y)) :
        Y \in SubtreeIn(call.xreq, xt) }

\* C12 amended: once the requested node X matches a permit rule as its first
\* match and every node below X has a first matching rule too, removing or
\* inserting a rule after the last of these first matching rules leaves the
\* verdict of the write request as it is; the nodes below X are checked
\* against the rules that come after the first match of X.
C12_RulesAfterAllFirstMatches ==
    (/\ WriteRootPermitted
     /\ \A Y \in SubtreeIn(call.xreq, xt) :
          WriteMatchPos(xnacm, username, call.access, xt, Y) # {})
    => \A other \in ChangedAfter(xnacm, LastPos(SubtreeFirstMatches),
                                 DataRules) :
         nacm_datanode_write(call.xreq, xt, call.access, username, other)
           = Result(call.retval, call.cbret)

\* <r/> is permitted by a rule on its module, and a later rule, the first to
\* match <y/> below it, denies the write; a rule follows that one
C12_Witness ==
    /\ WriteRootPermitted
    /\ call.xreq = "r"
    /\ \A Y \in SubtreeIn(call.xreq, xt) :
         WriteMatchPos(xnacm, username, call.access, xt, Y) # {}
    /\ LET p == FirstPos(WriteMatchPos(xnacm, username, call.access, xt, "r"))
           q == FirstPos(WriteMatchPos(xnacm, username, call.access, xt, "y"))
       IN  /\ Before(p, q)
           /\ RuleAt(xnacm, q).action = "deny"
           /\ q = LastPos(SubtreeFirstMatches)
    /\ call.retval = 0

(***************************************************************************)
(* Properties of nacm_datanode_read.                                       *)
(***************************************************************************)
IsReadCall == call.fn = "nacm_datanode_read"

\* the call was made for a user with a group on a policy with this
\* read-default
ReadCallWith(rd) ==
    /\ IsReadCall
    /\ xnacm.read_default = rd
    /\ username # NULL
    /\ UserGroupNames(xnacm, username) # {}

\* nodes of tree whose first matching entry of the cache has action act
MatchedAs(cache, tree, act) ==
    { n \in tree : FirstMatchAction(cache, n) = act }

\* nodes of tree that are in S or below a node of S
InOrBelow(tree, S) == { n \in tree : n \in S \/ AncestorsOf(n) \cap S # {} }

\* C3: nacm_datanode_read with read-default permit, for a user with a group,
\* leaves the input tree without exactly the subtrees whose root is a node
\* whose first matching read entry has action deny; a node below such a root
\* goes also when an entry would permit it.
C3_ReadDefaultPermit ==
    ReadCallWith("permit")
    => LET cache == CacheOf(xnacm, username, "read", call.xt0)
           denied == MatchedAs(cache, call.xt0, "deny")
       IN  /\ call.retval = 0
           /\ xt = call.xt0 \ InOrBelow(call.xt0, denied)

\* scenario S5 (deny on /r/y, <z/> below <y/> removed with it) with an entry
\* in the cache that permits <z/>
C3_Witness ==
    /\ ReadCallWith("permit")
    /\ call.xt0 = Nodes
    /\ LET cache == CacheOf(xnacm, username, "read", call.xt0)
       IN  /\ MatchedAs(cache, call.xt0, "deny") = {"y", "z"}
           /\ \E k \in DOMAIN cache :
                /\ EntryMatches(cache[k], "z")
                /\ cache[k].pv_xrule.action = "permit"
    /\ xt = {"r", "x", "s"}

\* C4: nacm_datanode_read with read-default deny, for a user with a group,
\* leaves below the top exactly the nodes whose first matching read entry has
\* action permit and that have no ancestor whose first matching entry has
\* action deny, together with the ancestors of those nodes.
C4_ReadDefaultDeny ==
    ReadCallWith("deny")
    => LET cache == CacheOf(xnacm, username, "read", call.xt0)
           denied == MatchedAs(cache, call.xt0, "deny")
           kept == MatchedAs(cache, call.xt0, "permit")
                     \ InOrBelow(call.xt0, denied)
       IN  /\ call.retval = 0
           /\ xt = kept \cup UNION { AncestorsOf(n) : n \in kept }

\* scenario S6: permit on /r/x alone leaves <r><x/></r>, <r/> unmatched
C4_Witness ==
    /\ ReadCallWith("deny")
    /\ call.xt0 = Nodes
    /\ LET cache == CacheOf(xnacm, username, "read", call.xt0)
       IN  /\ MatchedAs(cache, call.xt0, "permit") = {"x"}
           /\ MatchedAs(cache, call.xt0, "deny") = {}
    /\ xt = {"r", "x"}

\* the nodes of the requested subtrees
RequestedIn(xrvec, tree) == UNION { SubtreeIn(n, tree) : n \in Range(xrvec) }

\* the user is in no group: unknown, or known and named by no group
NoGroups == username = NULL \/ UserGroupNames(xnacm, username) = {}

\* C14 as stated: for a user without groups nacm_datanode_read removes every
\* requested subtree root, under read-default permit and under read-default
\* deny, whatever the rules.
C14_NoGroupsRootsRemoved ==
    (/\ IsReadCall
     /\ NoGroups
     /\ xnacm.read_default \in {"permit", "deny"})
    => /\ call.retval = 0
       /\ Range(call.xrvec) \cap xt = {}

\* C14 amended: for an unknown user (NULL) nacm_datanode_read skips the
\* traversal and removes every requested subtree root, whatever read-default
\* (permit, deny or absent) and the rules are; for a known user without
\* groups read-default decides, and under read-default permit nothing is
\* removed.
C14_UnknownUserRootsRemoved ==
    /\ (IsReadCall /\ username = NULL)
       => /\ call.retval = 0
          /\ xt = call.xt0 \ RequestedIn(call.xrvec, call.xt0)
          /\ flags = NoFlags
    /\ (/\ IsReadCall
        /\ username # NULL
        /\ NoGroups
        /\ xnacm.read_default = "permit")
       => /\ call.retval = 0
          /\ xt = call.xt0

\* an unknown user under read-default permit and a rule that permits every
\* node: <x/> and <s/> requested and removed
C14_Witness ==
    /\ IsReadCall
    /\ username = NULL
    /\ xnacm.read_default = "permit"
    /\ \E p \in Positions(xnacm) :
         RuleAt(xnacm, p) = Rule("*", NULL, NULL, NULL, "*", "permit")
    /\ call.xt0 = Nodes
    /\ call.xrvec = << "x", "s" >>
    /\ xt = {"r", "y", "z"}

\* C16 as stated: nacm_datanode_read on a policy without read-default leaf
\* succeeds and leaves the tree that the same policy with read-default
\* permit leaves.
C16_NoReadDefaultIsPermit ==
    (IsReadCall /\ xnacm.read_default = NULL)
    => /\ call.retval = 0
       /\ xt = nacm_datanode_read(call.xt0, NoFlags, call.xrvec, username,
                   [xnacm EXCEPT !.read_default = "permit"]).xt

\* C16 amended: for a known user, nacm_datanode_read on a policy without
\* read-default leaf ends in an error (-1), as nacm_datanode_write does
\* without write-default, and leaves the tree untouched; only for an unknown
\* user, for whom read-default is not looked up, does the call succeed.
C16_NoReadDefaultIsError ==
    (IsReadCall /\ xnacm.read_default = NULL)
    => IF username = NULL
       THEN call.retval = 0
       ELSE /\ call.retval = -1
            /\ xt = call.xt0
            /\ flags = NoFlags

\* a user with a group and a rule that denies <y/>, on a policy without
\* read-default: error, <y/> still in the tree
C16_Witness ==
    /\ IsReadCall
    /\ xnacm.read_default = NULL
    /\ username = "u1"
    /\ MatchedAs(CacheOf(xnacm, username, "read", call.xt0), call.xt0, "deny")
         = {"y", "z"}
    /\ call.retval = -1
    /\ xt = Nodes

\* the requested nodes of the call that are still attached
StillAttached(xrvec) == SelectSeq(xrvec, LAMBDA n : n \in xt)

\* C17 (P5, read idempotence): nacm_datanode_read run again on the tree a
\* successful run has left, with the same policy and user and the requested
\* nodes that are still attached, leaves that tree as it is, under both
\* read-default regimes.
C17_ReadIdempotent ==
    (IsReadCall /\ call.retval = 0)
    => nacm_datanode_read(xt, flags, StillAttached(call.xrvec), username,
                          xnacm)
         = ReadResult(0, [xt |-> xt, flags |-> flags])

\* a run for a user with a group that has removed nodes on a rule and kept
\* others
C17_Witness ==
    /\ IsReadCall
    /\ call.retval = 0
    /\ username = "u1"
    /\ call.xt0 = Nodes
    /\ MatchedAs(CacheOf(xnacm, username, "read", call.xt0), call.xt0, "deny")
         # {}
    /\ xt # Nodes
    /\ xt # {}
    /\ nacm_datanode_read(xt, flags, StillAttached(call.xrvec), username,
                          xnacm).xt = xt

\* the nodes a read for a known user leaves of tree, told from the first
\* matches of the nodes alone, without the order of the siblings
ReadOutcome(nacm, user, tree) ==
    LET cache == CacheOf(nacm, user, "read", tree)
        denied == InOrBelow(tree, MatchedAs(cache, tree, "deny"))
        kept == MatchedAs(cache, tree, "permit") \ denied
    IN  IF nacm.read_default = "permit" THEN tree \ denied
        ELSE kept \cup UNION { AncestorsOf(n) : n \in kept }

\* C18: the tree that nacm_datanode_read leaves does not depend on the order
\* in which the children of a node are visited: for each document order of
\* the siblings the nodes removed and the nodes retained are the same, those
\* the first matches of the nodes determine, under both read-default
\* regimes.
C18_SiblingOrderFree ==
    (IsReadCall /\ call.retval = 0)
    => /\ xt = ReadOutcome(xnacm, username, call.xt0)
       /\ flags = NoFlags

\* <y/> comes before <x/> and is purged on a deny rule; the iteration over
\* the children of <r/> starts again and <x/>, permitted by a rule, is
\* retained under read-default deny
C18_Witness ==
    /\ IsReadCall
    /\ order = << "r", "y", "z", "x", "s" >>
    /\ xnacm.read_default = "deny"
    /\ call.xt0 = Nodes
    /\ LET cache == CacheOf(xnacm, username, "read", call.xt0)
       IN  /\ FirstMatchAction(cache, "y") = "deny"
           /\ FirstMatchAction(cache, "x") = "permit"
           /\ FirstMatchAction(cache, "r") = NULL
    /\ xt = {"r", "x"}

\* policies without rules, one for each value of read-default
BarePolicies == { Policy("true", rd, "deny", "permit", << >>) : rd \in Defaults }

\* C29: nacm_datanode_read for a NULL user name succeeds, also on a policy
\* without read-default leaf; the nodes it removes are exactly the requested
\* nodes and the nodes below them; every other node stays attached and
\* carries no flag; and the outcome is that of any policy without rules,
\* whatever its read-default.
C29_NullUserFrame ==
    (IsReadCall /\ username = NULL)
    => LET requested == RequestedIn(call.xrvec, call.xt0) IN
       /\ call.retval = 0
       /\ call.xt0 \ xt = requested
       /\ \A n \in call.xt0 \ requested : n \in xt /\ flags[n] = {}
       /\ \A q \in BarePolicies :
            nacm_datanode_read(call.xt0, NoFlags, call.xrvec, NULL, q)
              = [retval |-> 0, xt |-> xt, flags |-> flags]

\* no read-default leaf and a rule that permits every node: <x/> and <s/>
\* are requested and removed, <r/>, <y/> and <z/> stay
C29_Witness ==
    /\ IsReadCall
    /\ username = NULL
    /\ xnacm.read_default = NULL
    /\ \E p \in Positions(xnacm) :
         /\ p[1] \in DOMAIN xnacm.rule_list
         /\ RuleAt(xnacm, p).action = "permit"
         /\ RuleAt(xnacm, p).path = NULL
         /\ RuleAt(xnacm, p).module_name = "*"
    /\ call.xt0 = Nodes
    /\ call.xrvec = << "x", "s" >>
    /\ call.retval = 0
    /\ xt = {"r", "y", "z"}

\* C30: for a user name that is not NULL the tree nacm_datanode_read leaves
\* does not depend on the requested nodes: the call with any other vector
\* of requested nodes of the tree, or with none, has the same return value
\* and leaves the same tree; and every node whose first matching entry is
\* deny is removed, inside the requested subtrees and outside.
C30_RootsIrrelevant ==
    (IsReadCall /\ username # NULL)
    => /\ \A v \in ReadRoots \cup { << >> } :
            Range(v) \subseteq call.xt0
            => nacm_datanode_read(call.xt0, NoFlags, v, username, xnacm)
                 = [retval |-> call.retval, xt |-> xt, flags |-> flags]
       /\ call.retval = 0
          => LET cache == CacheOf(xnacm, username, "read", call.xt0)
             IN  \A n \in call.xt0 :
                   FirstMatchAction(cache, n) = "deny" => n \notin xt

\* <x/> and <s/> are requested; <y/>, outside both, is removed by a deny
\* rule under read-default permit
C30_Witness ==
    /\ IsReadCall
    /\ username = "u1"
    /\ xnacm.read_default = "permit"
    /\ call.xt0 = Nodes
    /\ call.xrvec = << "x", "s" >>
    /\ call.retval = 0
    /\ xt = {"r", "x", "s"}

(***************************************************************************)
(* Properties of the three access validations together.                    *)
(***************************************************************************)
\* the nodes a step detaches go with everything below them
DetachedSubtrees == \A n \in xt \ xt' : Subtree(n) \cap xt' = {}

\* C13 (P7, frame): a call of nacm_rpc or nacm_datanode_write, whatever it
\* returns (permit, deny or error), leaves the data tree (nodes, order,
\* flags) and the policy tree as they are; a call of nacm_datanode_read
\* leaves the policy tree as it is and changes the data tree only by
\* detaching subtrees and through the MARK and DEL flags.
C13_Frame ==
    [][/\ call'.fn \in {"nacm_rpc", "nacm_datanode_write"}
          => /\ xt' = xt
             /\ order' = order
             /\ flags' = flags
             /\ xnacm' = xnacm
       /\ call'.fn = "nacm_datanode_read"
          => /\ xnacm' = xnacm
             /\ order' = order
             /\ xt' \subseteq xt
             /\ DetachedSubtrees
             /\ \A n \in Nodes :
                  flags'[n] \subseteq {XML_FLAG_MARK, XML_FLAG_DEL}]_vars

\* a write on <r/> that a rule denies at a node below <r/>, the tree whole
\* and unflagged after it
C13_Witness ==
    /\ IsWriteCall
    /\ call.xreq = "r"
    /\ call.retval = 0
    /\ call.cbret = << "access denied" >>
    /\ FirstMatchAction(CacheOf(xnacm, username, call.access, xt), "r")
         = "permit"
    /\ xt = Nodes
    /\ flags = NoFlags

\* the policy with every rule-list removed
NoRuleLists(nacm) == [nacm EXCEPT !.rule_list = << >>]

\* C15: for a user who is in no group (unknown, or named by no group) the
\* result of nacm_rpc and of nacm_datanode_write (verdict and message) and
\* of nacm_datanode_read (return value and tree left) is the result of the
\* same call on the same policy with every rule-list removed.
C15_NoGroupsAsNoRules ==
    NoGroups
    => /\ IsRpcCall
          => nacm_rpc(call.rpc, call.module, username, NoRuleLists(xnacm),
                      NoFault)
               = Result(call.retval, call.cbret)
       /\ IsWriteCall
          => nacm_datanode_write(call.xreq, xt, call.access, username,
                                 NoRuleLists(xnacm))
               = Result(call.retval, call.cbret)
       /\ IsReadCall
          => nacm_datanode_read(call.xt0, NoFlags, call.xrvec, username,
                                NoRuleLists(xnacm))
               = [retval |-> call.retval, xt |-> xt, flags |-> flags]

\* a read for a known user of no group under read-default permit, on a
\* policy whose rules remove a node for the user of group g3
C15_Witness ==
    /\ IsReadCall
    /\ username = "u2"
    /\ xnacm.read_default = "permit"
    /\ call.xt0 = Nodes
    /\ nacm_datanode_read(Nodes, NoFlags, call.xrvec, "u1", xnacm).xt # Nodes
    /\ call.retval = 0
    /\ xt = Nodes

\* the policy without the rule-lists that do not apply to the user
OnlyApplicable(nacm, user) ==
    [nacm EXCEPT !.rule_list =
        SelectSeq(nacm.rule_list,
                  LAMBDA rl : rl.group \cap UserGroupNames(nacm, user) # {})]

\* C25: the rule-lists whose group leaf-list holds no group of the user do
\* not influence the result: the verdict and message of nacm_rpc and of
\* nacm_datanode_write, and the return value and tree of nacm_datanode_read,
\* are those of the same call on the policy without these rule-lists; so
\* two policies that differ in such rule-lists only give the same result.
C25_InapplicableIgnored ==
    LET nacm == OnlyApplicable(xnacm, username) IN
    /\ IsRpcCall
       => nacm_rpc(call.rpc, call.module, username, nacm, NoFault)
            = Result(call.retval, call.cbret)
    /\ IsWriteCall
       => nacm_datanode_write(call.xreq, xt, call.access, username, nacm)
            = Result(call.retval, call.cbret)
    /\ IsReadCall
       => nacm_datanode_read(call.xt0, NoFlags, call.xrvec, username, nacm)
            = [retval |-> call.retval, xt |-> xt, flags |-> flags]

\* a user of group g3 is permitted an rpc by the rule-list of g3, behind a
\* rule-list of group g2 whose first rule denies the rpc
C25_Witness ==
    /\ IsRpcCall
    /\ username = "u1"
    /\ call.rpc = "edit-config"
    /\ Len(xnacm.rule_list) = 2
    /\ xnacm.rule_list[1].group = {"g2"}
    /\ Len(xnacm.rule_list[1].rule) = 1
    /\ xnacm.rule_list[1].rule[1].action = "deny"
    /\ nacm_rule_rpc(call.rpc, call.module, xnacm.rule_list[1].rule[1]) = 1
    /\ xnacm.rule_list[2].group = {"g3"}
    /\ xnacm.exec_default = "deny"
    /\ call.retval = 1

\* the place of a node in the document order
DocIndex(n) == CHOOSE i \in DOMAIN order : order[i] = n

\* the first node, in document order, of the subtree of X that does not pass
\* the write check
FirstDeniedNode(cache, nacm, X, tree) ==
    LET bad == { n \in SubtreeIn(X, tree) : ~WriteNodeOk(cache, nacm, n) }
    IN  CHOOSE n \in bad : \A o \in bad : DocIndex(n) <= DocIndex(o)

\* the message of a denied rpc: "access denied" when the first matching rule
\* has action deny, "default deny" when the default step denies
RpcDenyMessage ==
    IF /\ HasRpcMatch(xnacm, username, call.rpc, call.module)
       /\ RuleAt(xnacm, FirstRpcMatch(xnacm, username, call.rpc,
                                      call.module)).action = "deny"
    THEN "access denied"
    ELSE "default deny"

\* the message of a denied write: "access denied" when the first denied node
\* has a first matching entry of action deny, "default deny" when it matches
\* no entry
WriteDenyMessage ==
    LET cache == CacheOf(xnacm, username, call.access, xt)
        n == FirstDeniedNode(cache, xnacm, call.xreq, xt)
    IN  IF FirstMatchAction(cache, n) = "deny" THEN "access denied"
        ELSE "default deny"

\* C19: a Deny (0) of nacm_rpc or nacm_datanode_write has exactly one message
\* in cbret: "access denied" when a matched rule of action deny denies,
\* "default deny" when a default step does (exec-default, write-default,
\* kill-session/delete-config); a Permit (1) and an error (-1) write nothing.
\* A recursive write writes the message of the first denied node only.
C19_DenyPayload ==
    /\ IsRpcCall
       => /\ call.retval \in {0, 1}
          /\ call.retval = 1 => call.cbret = << >>
          /\ call.retval = 0 => call.cbret = << RpcDenyMessage >>
    /\ IsWriteCall
       => /\ call.retval \in {-1, 0, 1}
          /\ call.retval # 0 => call.cbret = << >>
          /\ call.retval = 0 => call.cbret = << WriteDenyMessage >>

\* a write on <r/>, itself permitted by a rule: <x/> below it is denied by a
\* rule and <y/>, the sibling after <x/>, matches no rule under write-default
\* deny; only the message of <x/> is written
C19_Witness ==
    /\ IsWriteCall
    /\ call.xreq = "r"
    /\ xnacm.write_default = "deny"
    /\ LET cache == CacheOf(xnacm, username, call.access, xt)
       IN  /\ FirstMatchAction(cache, "r") = "permit"
           /\ FirstMatchAction(cache, "x") = "deny"
           /\ FirstMatchAction(cache, "y") = NULL
    /\ call.retval = 0
    /\ call.cbret = << "access denied" >>

(***************************************************************************)
(* Properties of nacm_access_pre.                                          *)
(***************************************************************************)
IsPreCall == call.fn = "nacm_access_pre"

\* the mode names a policy source
PolicyMode == mode \in {"external", "internal"}

\* the call has met no failure of a call it makes
NoFailure == ~call.failed

\* C8 (P1): whatever request follows (nacm_access_pre takes none), user and
\* rule set: when the mode is unset or disabled, or, in a call that meets no
\* failure of the calls it makes, the policy source holds no policy or the
\* policy's enable-nacm is not "true" (false or absent), nacm_access_pre
\* returns 1 (permit), hands out no policy tree and leaves the data tree
\* as it is.
C8_DisabledPermits ==
    (/\ IsPreCall
     /\ \/ mode \in {NULL, "disabled"}
        \/ PolicyMode /\ NoFailure /\ config # "nacm"
        \/ /\ PolicyMode /\ NoFailure
           /\ config = "nacm" /\ xnacm.enable_nacm # "true")
    => /\ call.retval = 1
       /\ call.xnacmp = XNULL
       /\ xt = Nodes
       /\ flags = NoFlags

\* a policy without enable-nacm leaf whose rules and defaults deny the user
C8_Witness ==
    /\ IsPreCall
    /\ PolicyMode
    /\ config = "nacm"
    /\ xnacm.enable_nacm = NULL
    /\ username = "u1"
    /\ nacm_rpc("edit-config", "ietf-netconf", username, xnacm, NoFault).retval = 0
    /\ nacm_datanode_write("r", xt, "create", username, xnacm).retval = 0
    /\ call.retval = 1
    /\ call.xnacmp = XNULL

\* C9 (P2): with NACM enabled, a call of nacm_access_pre that meets no
\* failure of the calls it makes returns 1 (permit) for the configured
\* recovery user whatever the groups, rule-lists and defaults are and
\* whatever request follows.
C9_RecoveryPermits ==
    (/\ IsPreCall
     /\ NoFailure
     /\ PolicyMode
     /\ config = "nacm"
     /\ xnacm.enable_nacm = "true"
     /\ username # NULL
     /\ username = clicon_nacm_recovery_user)
    => call.retval = 1

\* the recovery user under a policy whose first matching rule denies
\* kill-session and every data node
C9_Witness ==
    /\ IsPreCall
    /\ PolicyMode
    /\ config = "nacm"
    /\ xnacm.enable_nacm = "true"
    /\ username = clicon_nacm_recovery_user
    /\ nacm_rpc("kill-session", "ietf-netconf", username, xnacm, NoFault)
         = Result(0, << "access denied" >>)
    /\ nacm_datanode_write("r", xt, "delete", username, xnacm)
         = Result(0, << "access denied" >>)
    /\ call.retval = 1

\* C20: with a mode other than unset, disabled, external and internal,
\* nacm_access_pre ends in an error (-1), which is neither permit (1) nor
\* "not permitted yet" (0), and hands out no policy tree; it hands out a
\* policy tree, the one of the policy source, exactly when it returns 0,
\* also when a call it makes fails.
C20_BadModeIsError ==
    IsPreCall
    => /\ mode \notin {NULL, "disabled", "external", "internal"}
          => (call.retval = -1 /\ call.xnacmp = XNULL)
       /\ call.xnacmp # XNULL <=> call.retval = 0
       /\ call.retval = 0 => call.xnacmp = xnacm

\* an unrecognised mode with a policy source that holds an enabled policy
C20_Witness ==
    /\ IsPreCall
    /\ mode = "bogus"
    /\ config = "nacm"
    /\ xnacm.enable_nacm = "true"
    /\ username = "u1"
    /\ call.retval = -1
    /\ call.xnacmp = XNULL

(***************************************************************************)
(* Properties of match_access.                                             *)
(***************************************************************************)
IsMatchCall == call.fn = "match_access"

\* the set of the tokens of the leaf of the call
TokenSet == Range(call.tokens)

\* the requested primary mode is a token, or the secondary mode of a write
\* access is
ModeIsToken ==
    \/ call.mode1 \in TokenSet
    \/ call.mode2 # NULL /\ call.mode2 \in TokenSet

\* C23 as stated: match_access matches exactly when the token set of the
\* leaf holds "*", the requested primary mode or, for create, update and
\* delete, "write"; an absent leaf never matches.
C23_TokenSetWithStar ==
    IsMatchCall
    => /\ call.retval = 1 <=> ("*" \in TokenSet \/ ModeIsToken)
       /\ call.access_operations = NULL => call.retval = 0

\* C23: match_access matches exactly when the leaf is "*" alone, or its
\* token set holds the requested primary mode or, for create, update and
\* delete, "write"; "*" as one token among others does not match by
\* itself; an absent leaf never matches, and no token is found inside
\* another one.
C23_TokenSetStarAlone ==
    IsMatchCall
    => /\ call.retval \in {0, 1}
       /\ call.retval = 1 <=> (call.access_operations = "*" \/ ModeIsToken)
       /\ call.access_operations = NULL => call.retval = 0

\* "*" next to a token that is not the requested mode: no match
C23_Witness ==
    /\ IsMatchCall
    /\ call.access_operations = "read *"
    /\ call.mode1 = "create"
    /\ call.mode2 = "write"
    /\ call.retval = 0

(***************************************************************************)
(* Properties of nacm_rule_rpc.                                            *)
(***************************************************************************)
IsRuleRpcCall == call.fn = "nacm_rule_rpc"

\* the access-operations values that hold the exec bit or are "*"
ExecOperations == { "*", "exec", "read exec" }

\* C24: nacm_rule_rpc matches exactly when the rule has a module-name that
\* is "*" or the module of the rpc, has either none of rpc-name, path and
\* notification-name or an rpc-name that is "*" or the name of the rpc, and
\* has access-operations that match exec; a rule without module-name and a
\* rule with a path or a notification-name never match.
C24_RuleRpcMatch ==
    IsRuleRpcCall
    => LET R == call.xrule IN
       /\ call.retval \in {0, 1}
       /\ call.retval = 1
          <=> /\ R.module_name # NULL
              /\ R.module_name \in { "*", call.module }
              /\ \/ /\ R.rpc_name = NULL
                    /\ R.path = NULL
                    /\ R.notification_name = NULL
                 \/ /\ R.rpc_name # NULL
                    /\ R.rpc_name \in { "*", call.rpc }
              /\ R.access_operations \in ExecOperations
       /\ R.module_name = NULL => call.retval = 0
       /\ (R.path # NULL \/ R.notification_name # NULL) => call.retval = 0

\* a data-node rule whose module-name and access-operations fit the rpc
C24_Witness ==
    /\ IsRuleRpcCall
    /\ call.rpc = "reset"
    /\ call.xrule.module_name = "example"
    /\ call.xrule.path = "/r"
    /\ call.xrule.access_operations = "exec"
    /\ call.retval = 0

(***************************************************************************)
(* Properties of the rules whose path selects no node.                     *)
(***************************************************************************)
\* the tree and the access of the last call
CallTree == IF IsWriteCall THEN xt ELSE call.xt0
CallAccess == IF IsWriteCall THEN call.access ELSE "read"

\* the rule has a path and the path selects no node of tree
EmptyPathRule(r, tree) ==
    /\ r.path # NULL
    /\ clixon_xml_find_instance_id(tree, r.path).xvec = << >>

\* the policy without the rules whose path selects no node of tree
WithoutEmptyPathRules(nacm, tree) ==
    [nacm EXCEPT !.rule_list =
        [i \in DOMAIN nacm.rule_list |->
            [nacm.rule_list[i] EXCEPT !.rule =
                SelectSeq(nacm.rule_list[i].rule,
                          LAMBDA r : ~EmptyPathRule(r, tree))]]]

\* C27: a cache entry of a rule with a path matches a node, in write and in
\* read matching, only when the node is in its node set or below a node of
\* it, so with an empty node set it matches no node, whatever its
\* module-name; an entry of a rule without path matches on its module-name
\* alone, whatever node set it is given; and the result of the call is that
\* of the policy without the rules whose path selects no node.
C27_EmptyPathNoMatch ==
    (IsWriteCall \/ IsReadCall)
    => LET cache == CacheOf(xnacm, username, CallAccess, CallTree)
           st0 == [xt |-> CallTree, flags |-> NoFlags]
           nacm == WithoutEmptyPathRules(xnacm, CallTree)
       IN
       /\ \A k \in DOMAIN cache : \A X \in CallTree :
            LET R == cache[k].pv_xrule
                P == cache[k].pv_xpathvec
                w == nacm_data_write_xrule_xml(X, R, P)
                r == nacm_data_read_xrule_xml(X, R, P, st0).ret
            IN  /\ (R.path # NULL /\ (w # 0 \/ r # 0))
                   => \E p \in Range(P) : X = p \/ p \in AncestorsOf(X)
                /\ (R.path # NULL /\ P = << >>) => (w = 0 /\ r = 0)
                /\ R.path = NULL
                   => /\ w = nacm_data_write_xrule_xml(X, R, << X >>)
                      /\ r = nacm_data_read_xrule_xml(X, R, << X >>, st0).ret
                      /\ (w # 0) <=> R.module_name \in { "*", ModuleOf[X] }
                      /\ (r # 0) <=> R.module_name \in { "*", ModuleOf[X] }
       /\ IsWriteCall
          => nacm_datanode_write(call.xreq, xt, call.access, username, nacm)
               = Result(call.retval, call.cbret)
       /\ IsReadCall
          => nacm_datanode_read(call.xt0, NoFlags, call.xrvec, username, nacm)
               = [retval |-> call.retval, xt |-> xt, flags |-> flags]

\* a write is permitted by write-default although the first entry of the
\* cache is a deny rule for every module: its path selects no node
C27_Witness ==
    /\ IsWriteCall
    /\ username = "u1"
    /\ xnacm.write_default = "permit"
    /\ LET cache == CacheOf(xnacm, username, call.access, xt)
       IN  /\ Len(cache) = 1
           /\ cache[1].pv_xrule.path = "/r/gone"
           /\ cache[1].pv_xrule.module_name = "*"
           /\ cache[1].pv_xrule.action = "deny"
           /\ cache[1].pv_xpathvec = << >>
    /\ call.retval = 1

(***************************************************************************)
(* Properties of nacm_datanode_prepare.                                    *)
(***************************************************************************)
\* a call of nacm_datanode_prepare that has built the cache: it has
\* returned 0 (for an access that is none of read, create, delete and update
\* it returns -1 at the first rule it comes to)
IsPrepareCall == call.fn = "nacm_datanode_prepare" /\ call.retval = 0

\* the nodes of tree the path of a rule selects
PathNodes(path, tree) ==
    IF path \in DOMAIN PathNode /\ PathNode[path] \in tree
    THEN { PathNode[path] } ELSE {}

\* a rule without path, rpc-name and notification-name
RuleTypeAny(R) ==
    R.path = NULL /\ R.rpc_name = NULL /\ R.notification_name = NULL

\* the positions of S in document order
InDocumentOrder(S) ==
    [k \in 1..Cardinality(S) |->
        CHOOSE p \in S : Cardinality({ q \in S : Before(q, p) }) = k - 1]

\* the cache that holds, in document order, the rules at the positions S
CacheAt(nacm, tree, S) ==
    LET ps == InDocumentOrder(S) IN
    [k \in DOMAIN ps |->
        [pv_xrule |-> RuleAt(nacm, ps[k]),
         pv_xpathvec |->
             IF RuleAt(nacm, ps[k]).path = NULL THEN << >>
             ELSE clixon_xml_find_instance_id(tree,
                                              RuleAt(nacm, ps[k]).path).xvec]]

\* positions of the rules of applicable rule-lists whose access-operations
\* match the access
AccessPositions(nacm, user, access) ==
    { p \in Positions(nacm) :
        /\ p[1] \in Applicable(nacm, user)
        /\ match_access(RuleAt(nacm, p).access_operations, access,
                        Mode2(access)) = 1 }

\* C21 as stated: the cache is, in document order of rule-lists and rules,
\* the rules of the applicable rule-lists whose access-operations match the
\* access and that are rule-type-any (stored with the empty node set) or have
\* a path that selects a node set that is not empty (stored with it); path
\* rules that select no node are not in the cache.
C21_CacheDropsEmptyPaths ==
    IsPrepareCall
    => call.pv_list =
         CacheAt(xnacm, xt,
                 { p \in AccessPositions(xnacm, username, call.access) :
                     LET R == RuleAt(xnacm, p)
                     IN  \/ RuleTypeAny(R)
                         \/ R.path # NULL /\ PathNodes(R.path, xt) # {} })

\* C21: the cache is, in document order of rule-lists and rules, the rules
\* of the applicable rule-lists whose access-operations match the access and
\* that are rule-type-any (stored with the empty node set) or have a path
\* that the instance lookup accepts (stored with the nodes the path selects,
\* none when it selects none); rules with rpc-name or notification-name and
\* rules whose path the lookup does not accept are not in the cache; each
\* rule element of the policy is in the cache at most once.
C21_CacheInDocumentOrder ==
    IsPrepareCall
    => /\ call.pv_list =
            CacheAt(xnacm, xt,
                    { p \in AccessPositions(xnacm, username, call.access) :
                        LET R == RuleAt(xnacm, p)
                        IN  \/ RuleTypeAny(R)
                            \/ /\ R.path # NULL
                               /\ clixon_xml_find_instance_id(xt, R.path).ret = 1 })
       /\ \A k \in DOMAIN call.pv_list :
            LET e == call.pv_list[k] IN
            /\ e.pv_xrule.rpc_name = NULL
            /\ e.pv_xrule.notification_name = NULL
            /\ e.pv_xrule.path = NULL => e.pv_xpathvec = << >>
            /\ e.pv_xrule.path # NULL
               => Range(e.pv_xpathvec) = PathNodes(e.pv_xrule.path, xt)

\* two rule-lists of the user's group: the cache for create holds the rule
\* of the first, whose path selects no node, with the empty node set, and
\* behind it the rule of the second with the node its path selects
C21_Witness ==
    /\ IsPrepareCall
    /\ username = "u1"
    /\ call.access = "create"
    /\ xt = Nodes
    /\ Len(xnacm.rule_list) = 2
    /\ Len(xnacm.rule_list[1].rule) = 1
    /\ Len(xnacm.rule_list[2].rule) = 1
    /\ Len(call.pv_list) = 2
    /\ call.pv_list[1] = [pv_xrule |-> xnacm.rule_list[1].rule[1],
                          pv_xpathvec |-> << >>]
    /\ call.pv_list[1].pv_xrule.path = "/r/gone"
    /\ call.pv_list[2] = [pv_xrule |-> xnacm.rule_list[2].rule[1],
                          pv_xpathvec |-> << "y" >>]

(***************************************************************************)
(* Properties of the traversals taken step by step.                        *)
(***************************************************************************)
\* the children of xn that are detached
DetachedChildren(xn) == { c \in Nodes : Parent[c] = xn /\ c \notin xt }

\* in every call in progress the entry under test is an entry of the queue
\* and the loop over the children has started again at most once for each
\* detached child
FramesBounded ==
    \A i \in DOMAIN stack :
      /\ stack[i].pv >= 1
      /\ stack[i].at = "scan" => stack[i].pv <= Len(prepvec)
      /\ stack[i].restarts <= Cardinality(DetachedChildren(stack[i].xn))

\* behind the traversal every node that is still attached has been checked:
\* none has a first match that denies, the ones with a first match that
\* permits carry the MARK flag and the others no flag
SurvivorsEvaluated ==
    pc = "step8"
    => \A n \in xt :
         /\ FirstMatchAction(prepvec, n) # "deny"
         /\ flags[n] = IF FirstMatchAction(prepvec, n) = "permit"
                       THEN {XML_FLAG_MARK} ELSE {}

\* a step that stays in the scan of a node goes on to the next entry
ScanAdvances ==
    (/\ Len(stack) > 0
     /\ Len(stack') = Len(stack)
     /\ stack[Len(stack)].at = "scan"
     /\ stack'[Len(stack)].at = "scan")
    => stack'[Len(stack)].pv = stack[Len(stack)].pv + 1

\* a call that has returned has the result of the function taken as a whole
StepsAgree ==
    pc = "done"
    => IF call.fn = "nacm_datanode_read"
       THEN ReadResult(call.retval, [xt |-> xt, flags |-> flags])
              = nacm_datanode_read(call.xt0, NoFlags, call.xrvec, username,
                                   xnacm)
       ELSE Result(call.retval, call.cbret)
              = nacm_datanode_write(call.xreq, xt, call.access, username,
                                    xnacm)

\* C26: nacm_datanode_read and nacm_datanode_write run to completion on
\* every tree and policy: the scan of the queue tests each entry at most
\* once for a node and ends behind the last entry, the loop of the read
\* traversal over the children of a node starts again at most once for each
\* child that has been detached, behind the read traversal every node still
\* attached has been checked, and the call returns, with the result of the
\* function.
C26_RunsToCompletion ==
    /\ [](FramesBounded /\ SurvivorsEvaluated /\ StepsAgree)
    /\ [][ScanAdvances]_vars
    /\ <>(pc = "done")

\* a read traversal whose loop over the children of <r/> has started again
\* twice, for <x/> and for <y/>, and has no child left to check
C26_Witness ==
    /\ pc = "recurse"
    /\ \E i \in DOMAIN stack :
         /\ stack[i].xn = "r"
         /\ stack[i].at = "each"
         /\ stack[i].restarts = 2
         /\ xml_child_each("r", stack[i].x, xt) = NULL
    /\ xt = {"r", "s"}

\* the read traversal is in progress
InReadTraversal == pc \in {"recurse", "step8"}

\* the nodes the cached node sets refer to that are detached
StaleNodes ==
    { p \in UNION { Range(prepvec[k].pv_xpathvec) : k \in DOMAIN prepvec } :
        p \notin xt }

\* the value nacm_data_read_xrule_xml returns for node n and the entry e
MatchOutcome(n, e) ==
    nacm_data_read_xrule_xml(n, e.pv_xrule, e.pv_xpathvec,
                             [xt |-> xt, flags |-> flags]).ret

\* C28: during nacm_datanode_read the cache is the one built on the tree the
\* call was given, also after nodes have been detached; at every point of
\* the traversal no node still attached is a detached node of a cached node
\* set or lies below one, and every attached node has with every entry of the
\* cache the match outcome it has with the entry of a cache built anew on the
\* current tree.
C28_StaleSetsHarmless ==
    InReadTraversal
    => LET fresh == CacheOf(xnacm, username, "read", xt)
       IN  /\ prepvec = CacheOf(xnacm, username, "read", call.xt0)
           /\ \A n \in xt : \A p \in StaleNodes :
                n # p /\ p \notin AncestorsOf(n)
           /\ Len(fresh) = Len(prepvec)
           /\ \A n \in xt : \A k \in DOMAIN prepvec :
                MatchOutcome(n, prepvec[k]) = MatchOutcome(n, fresh[k])

\* <y/> has been purged with <z/> below it, an entry of the cache refers to
\* the detached <z/> and another to the detached <y/>, and <s/> is under
\* test against the entry that refers to <z/>
C28_Witness ==
    /\ pc = "recurse"
    /\ StaleNodes = {"y", "z"}
    /\ xt = {"r", "x", "s"}
    /\ LET f == stack[Len(stack)]
       IN  /\ f.xn = "s"
           /\ f.at = "scan"
           /\ prepvec[f.pv].pv_xpathvec = << "z" >>

(***************************************************************************)
(* Properties of the release of the queue.                                 *)
(***************************************************************************)
\* every element of the queue has its struct freed once, and its node vector
\* when it has one
Released ==
    \A k \in DOMAIN heap :
      /\ heap[k].pv = "freed"
      /\ heap[k].xvec \in {"freed", "none"}

\* no allocation of the queue is freed
AllLive ==
    \A k \in DOMAIN heap :
      /\ heap[k].pv = "live"
      /\ heap[k].xvec \in {"live", "none"}

\* the step on which the function returns frees no rule of the policy and no
\* node of the tree, and leaves the flags alone
ReturnKeepsTrees ==
    (pc # "done" /\ pc' = "done")
    => /\ xnacm' = xnacm
       /\ xt' = xt
       /\ flags' = flags
       /\ Len(heap') = Len(heap)

\* C22: on every way out of nacm_datanode_write and nacm_datanode_read, with
\* permit, deny, a read that is complete and every failure, also one in the
\* middle of nacm_datanode_prepare or of prepvec_add, each element of the
\* queue that was made is released once, not before the way out and not
\* twice, with its node vector when it has one; the release frees no rule of
\* the policy and no node of the tree.
C22_QueueReleasedOnce ==
    /\ [](/\ pc = "done" => Released
          /\ pc # "done" => AllLive /\ Len(heap) = Len(prepvec))
    /\ [][ReturnKeepsTrees]_vars

\* nacm_datanode_prepare has failed in prepvec_add for its second element,
\* which clixon_xvec_new has left without node vector: both elements are
\* released, and the call has returned -1
C22_Witness ==
    /\ pc = "done"
    /\ call.retval = -1
    /\ Len(heap) = 2
    /\ heap[1] = [pv |-> "freed", xvec |-> "freed"]
    /\ heap[2] = [pv |-> "freed", xvec |-> "none"]

=============================================================================
